---- MODULE Spec2Model ----
(***************************************************************************)
(* A model of the indexing pipeline of docubot (src/vectorize_repo.py):    *)
(* the token-aware chunker, the embedding fan-out of a batch, the vector   *)
(* store writer and the batch loop of vectorize_repository; and of its     *)
(* query service (src/tools/busqueda.py).                                  *)
(*                                                                         *)
(* Texts are sequences of characters.  SpecChunk runs _chunk_content one   *)
(* loop iteration at a time on every small text and parameter setting;     *)
(* Spec runs vectorize_repository over a small repository, twice, with the *)
(* repository edited between the runs; SpecSearch runs buscar_codigo on a  *)
(* store with or without the collection, beside the pipeline's client      *)
(* setup and provider call.                                                *)
(***************************************************************************)
EXTENDS Integers, Sequences, FiniteSets, TLC

(***************************************************************************)
(* Bounds of the model.                                                    *)
(***************************************************************************)
MaxLen == 5          \* longest text of the exhaustive text set
MaxBudget == 3       \* largest max_tokens_per_chunk
MaxOverlap == 2      \* largest chunk_overlap
MaxChunkSize == 2    \* largest chunk_size
MaxLines == 8        \* longest uniform file (lines)

(***************************************************************************)
(* Characters and the tokenizer.                                           *)
(***************************************************************************)
NL == "\n"

\* The characters texts are made of: a one-token character, a character the
\* tokenizer encodes as two tokens, and the line break.
Chars == {"a", "W", NL}

\* str.strip() removes these.
Whitespace == {" ", "\t", "\r", NL}

TokenWeight(c) == IF c = "W" THEN 2 ELSE 1

RECURSIVE TokenCount(_)
\* len(self.tokenizer.encode(text)): the empty text has no token.
TokenCount(text) ==
  IF text = <<>> THEN 0
  ELSE TokenWeight(Head(text)) + TokenCount(Tail(text))

Min(a, b) == IF a <= b THEN a ELSE b

(***************************************************************************)
(* Python's string and list operations, as the code uses them.             *)
(***************************************************************************)
\* content.strip() == ""
IsBlank(content) == \A i \in 1..Len(content) : content[i] \in Whitespace

RECURSIVE Split(_)
\* content.split('\n'): one line more than there are line breaks.
Split(content) ==
  IF \A i \in 1..Len(content) : content[i] # NL THEN <<content>>
  ELSE LET i == CHOOSE k \in 1..Len(content) :
                  content[k] = NL /\ \A j \in 1..(k - 1) : content[j] # NL
       IN <<SubSeq(content, 1, i - 1)>> \o Split(SubSeq(content, i + 1, Len(content)))

RECURSIVE Join(_)
\* '\n'.join(lines)
Join(lines) ==
  IF lines = <<>> THEN <<>>
  ELSE IF Len(lines) = 1 THEN lines[1]
  ELSE lines[1] \o <<NL>> \o Join(Tail(lines))

\* lst[-n:] for n >= 0: the last n elements, and the whole list for n = 0
\* (-0 is 0) and for n >= len(lst).
PyTail(lst, n) ==
  IF n = 0 \/ n >= Len(lst) THEN lst
  ELSE SubSeq(lst, Len(lst) - n + 1, Len(lst))

\* Slices with the end of each slice one character short.
SlicesOneShort(line, size) ==
  [k \in 1..((Len(line) + size - 1) \div size) |->
     SubSeq(line, (k - 1) * size + 1, Min(k * size, Len(line)) - 1)]

\* [line[i:i + size] for i in range(0, len(line), size)]
Slices(line, size) ==
  [k \in 1..((Len(line) + size - 1) \div size) |->
     SubSeq(line, (k - 1) * size + 1, Min(k * size, Len(line)))]

RECURSIVE SumTokens(_)
\* sum(len(self.tokenizer.encode(l)) for l in lines)
SumTokens(lines) ==
  IF lines = <<>> THEN 0
  ELSE TokenCount(Head(lines)) + SumTokens(Tail(lines))

(***************************************************************************)
(* _create_chunk_dict and _chunk_content.                                  *)
(*                                                                         *)
(* The chunker's state is the record st: chunks, current_chunk and         *)
(* current_tokens are the locals of _chunk_content; origin is a history    *)
(* of how each chunk was made (its kind, the number of lines carried over  *)
(* as overlap, whether a slice starts a line), which the code does not     *)
(* keep.                                                                   *)
(***************************************************************************)
CreateChunkDict(text, metadata, chunk_index) ==
  [text |-> text,
   metadata |-> [file_path |-> metadata.file_path,
                 file_size |-> metadata.file_size,
                 chunk_index |-> chunk_index,
                 chunk_size |-> Len(text),
                 token_count |-> TokenCount(text)]]

EmptyChunker ==
  [chunks |-> <<>>, current_chunk |-> <<>>, current_tokens |-> 0,
   origin |-> <<>>, carried |-> 0]

\* chunks.append(self._create_chunk_dict('\n'.join(current_chunk), ...))
Flush(st, metadata) ==
  [st EXCEPT
     !.chunks = Append(@, CreateChunkDict(Join(st.current_chunk), metadata,
                                          Len(st.chunks))),
     !.origin = Append(@, [kind |-> "lines", carried |-> st.carried,
                           first |-> TRUE])]

RECURSIVE EmitSlicesOwnIndex(_, _, _, _)
\* The slices of a line are numbered from 0, whatever was emitted before.
EmitSlicesOwnIndex(st, slices, k, metadata) ==
  IF k > Len(slices) THEN st
  ELSE EmitSlicesOwnIndex(
         [st EXCEPT
            !.chunks = Append(@, CreateChunkDict(slices[k], metadata, k - 1)),
            !.origin = Append(@, [kind |-> "slice", carried |-> 0,
                                  first |-> (k = 1)])],
         slices, k + 1, metadata)

RECURSIVE EmitSlices(_, _, _, _)
\* The loop over range(0, len(line), chunk_size), slice k onwards.
EmitSlices(st, slices, k, metadata) ==
  IF k > Len(slices) THEN st
  ELSE EmitSlices(
         [st EXCEPT
            !.chunks = Append(@, CreateChunkDict(slices[k], metadata,
                                                 Len(st.chunks))),
            !.origin = Append(@, [kind |-> "slice", carried |-> 0,
                                  first |-> (k = 1)])],
         slices, k + 1, metadata)

IsOversized(line, p) == TokenCount(line) > p.max_tokens_per_chunk

IsOverflow(st, line, p) ==
  st.current_tokens + TokenCount(line) > p.max_tokens_per_chunk

\* The line alone exceeds the budget: flush the buffer, slice the line.
OversizedLine(st, line, metadata, p) ==
  LET flushed == IF st.current_chunk # <<>>
                 THEN [Flush(st, metadata) EXCEPT !.current_chunk = <<>>,
                                                  !.current_tokens = 0,
                                                  !.carried = 0]
                 ELSE st
  IN EmitSlices(flushed, Slices(line, p.chunk_size), 1, metadata)

\* The lines the next buffer is seeded with.
OverlapLines(current_chunk, p) ==
  IF Len(current_chunk) > p.chunk_overlap
  THEN PyTail(current_chunk, p.chunk_overlap)
  ELSE current_chunk

\* Adding the line exceeds the budget: flush, seed the next buffer.
OverflowLine(st, line, metadata, p) ==
  LET flushed == IF st.current_chunk # <<>> THEN Flush(st, metadata) ELSE st
      overlap_lines == OverlapLines(st.current_chunk, p)
  IN [flushed EXCEPT
        !.current_chunk = overlap_lines \o <<line>>,
        !.current_tokens = SumTokens(overlap_lines \o <<line>>),
        !.carried = Len(overlap_lines)]

\* current_chunk.append(line); current_tokens += line_tokens
AppendLine(st, line) ==
  [st EXCEPT !.current_chunk = Append(@, line),
             !.current_tokens = @ + TokenCount(line)]

\* One iteration of "for line in lines".
ProcessLine(st, line, metadata, p) ==
  IF IsOversized(line, p) THEN OversizedLine(st, line, metadata, p)
  ELSE IF IsOverflow(st, line, p) THEN OverflowLine(st, line, metadata, p)
  ELSE AppendLine(st, line)

\* The buffer left at the end of the input is not flushed.
FinalFlushMissing(st, metadata) == st

\* "Procesar chunk final"
FinalFlush(st, metadata) ==
  IF st.current_chunk # <<>> THEN Flush(st, metadata) ELSE st

RECURSIVE ChunkLines(_, _, _, _, _)
ChunkLines(st, lines, k, metadata, p) ==
  IF k > Len(lines) THEN FinalFlush(st, metadata)
  ELSE ChunkLines(ProcessLine(st, lines[k], metadata, p), lines, k + 1,
                  metadata, p)

\* _chunk_content as a whole: the list of chunks of a text.
ChunkContent(content, metadata, p) ==
  IF IsBlank(content) THEN <<>>
  ELSE ChunkLines(EmptyChunker, Split(content), 1, metadata, p).chunks

(***************************************************************************)
(* The texts and parameter settings the chunker is run on.                 *)
(***************************************************************************)
RECURSIVE TextsUpTo(_)
TextsUpTo(n) ==
  IF n = 0 THEN {<<>>}
  ELSE LET shorter == TextsUpTo(n - 1)
       IN shorter \cup {Append(t, c) : t \in {s \in shorter : Len(s) = n - 1},
                                         c \in Chars}

Repeat(c, n) == [k \in 1..n |-> c]

\* A file of n equal lines, no line break at the end.
UniformFile(line, n) == Join([k \in 1..n |-> line])

UniformLines == {<<"a">>, <<"W">>, <<"a", "a">>}

\* Files whose lines all have the same token count.
UniformFiles == {UniformFile(l, n) : l \in UniformLines, n \in 1..MaxLines}

\* The longest single-line file: five budgets' worth of tokens.
MaxLineLen == 5 * MaxBudget

\* Files that are one line.
SingleLineFiles == {Repeat(c, n) : c \in {"a", "W"}, n \in 1..MaxLineLen}

ChunkerTexts == TextsUpTo(MaxLen) \cup UniformFiles \cup SingleLineFiles

ChunkerParams ==
  [max_tokens_per_chunk : 1..MaxBudget,
   chunk_overlap : 0..MaxOverlap,
   chunk_size : 1..MaxChunkSize]

\* The metadata of the file the chunker is run on.
ChunkerMetadata(text) == [file_path |-> <<"a">>, file_size |-> Len(text)]

(***************************************************************************)
(* Python values whose type the code tests at run time (the provider's     *)
(* response, the result of _get_embedding) carry their type.               *)
(***************************************************************************)
None == [t |-> "none"]
Num(n) == [t |-> "num", v |-> n]
Bool(b) == [t |-> "bool", v |-> b]
Str(x) == [t |-> "str", v |-> x]
List(xs) == [t |-> "list", v |-> xs]
Dict(f) == [t |-> "dict", v |-> f]

\* bool(value), for the values the code tests.
Truthy(value) ==
  /\ value.t # "none"
  /\ value.t \in {"list", "str"} => value.v # <<>>

\* The result of a function that returns a value or raises ValueError.
Returned(value) == [raised |-> FALSE, value |-> value]
Raised(message) == [raised |-> TRUE, message |-> message]

\* The validator accepts a list with a non-numeric element.
ValidatorSkipsElements(response_body) ==
  IF response_body.t # "dict" THEN Raised("not a dict")
  ELSE IF "embedding" \notin DOMAIN response_body.v THEN Raised("no embedding")
  ELSE LET embedding == response_body.v.embedding
       IN IF embedding.t # "list" THEN Raised("not a list")
          ELSE Returned(embedding)

\* isinstance(x, (int, float)): bool is a subclass of int.
IsIntOrFloat(x) == x.t \in {"num", "bool"}

\* _validar_respuesta_embedding
ValidarRespuestaEmbedding(response_body) ==
  IF response_body.t # "dict" THEN Raised("not a dict")
  ELSE IF "embedding" \notin DOMAIN response_body.v THEN Raised("no embedding")
  ELSE LET embedding == response_body.v.embedding
       IN IF embedding.t # "list" THEN Raised("not a list")
          ELSE IF embedding.v = <<>> THEN Raised("empty")
          ELSE IF \E k \in 1..Len(embedding.v) : ~IsIntOrFloat(embedding.v[k])
               THEN Raised("not numeric")
          ELSE Returned(embedding)

\* The provider's limit on inputText, in characters.
InputLimit == 8192

\* The request body of _get_embedding: {"inputText": text[:8192]}
RequestBody(text) == [inputText |-> SubSeq(text, 1, Min(Len(text), InputLimit))]

\* The vector the provider computes for an input text.
Vector(inputText) == List(<<Num(Len(inputText)), Num(TokenCount(inputText))>>)

\* What a call of invoke_model and the reading of its body can give: an
\* exception of the transport, a body that is no JSON, or a JSON body of
\* any shape.
ProviderOutcomes(request) ==
  {[kind |-> "transport"], [kind |-> "json"]} \cup
  {[kind |-> "body", body |-> b] :
     b \in {Str(<<"x">>),
            Dict([message |-> Str(<<"x">>)]),
            Dict([embedding |-> Str(<<"x">>)]),
            Dict([embedding |-> List(<<>>)]),
            Dict([embedding |-> List(<<Num(1), Str(<<"x">>)>>)]),
            Dict([embedding |-> Vector(request.inputText)])}}

\* _get_embedding takes every text to the provider.
RejectsNothing(text) == FALSE

\* _get_embedding rejects the text without calling the provider.
RejectsText(text) == text = <<>>

\* _get_embedding after the provider call: the validated vector, or None
\* after any exception.
GetEmbeddingResult(outcome) ==
  IF outcome.kind # "body" THEN None
  ELSE LET r == ValidarRespuestaEmbedding(outcome.body)
       IN IF r.raised THEN None ELSE r.value

\* A line of the log: its level and its message.
LogLine(level, msg) == [level |-> level, msg |-> msg]

\* What _get_embedding logs after the provider call.  json.JSONDecodeError
\* is a ValueError, so "except ValueError" takes it as well.
GetEmbeddingLog(outcome) ==
  IF outcome.kind = "transport"
  THEN [level |-> "error", msg |-> "Error obteniendo embedding", e |-> "transport"]
  ELSE IF outcome.kind = "json"
  THEN [level |-> "error", msg |-> "Error de validacion en respuesta AWS",
        e |-> "json"]
  ELSE IF ValidarRespuestaEmbedding(outcome.body).raised
  THEN [level |-> "error", msg |-> "Error de validacion en respuesta AWS",
        e |-> ValidarRespuestaEmbedding(outcome.body).message]
  ELSE LogLine("debug", "Embedding obtenido exitosamente")

\* The exception of collection.add is not logged: the last line stays.
StoreErrorUnlogged(last) == last

\* _store_in_chromadb: except Exception as e: logger.error(...)
LogStoreError(last) == LogLine("error", "Error almacenando en ChromaDB")

\* The text of a special token of the encoding ("<|endoftext|>"), which
\* tokenizer.encode refuses with a ValueError.
Special == "<"

\* self.tokenizer.encode(text) raises.
EncodeRaises(text) == \E k \in 1..Len(text) : text[k] = Special

\* _chunk_content raises: the content is not blank and a line of it holds
\* a special token.
ChunkContentRaises(text) == ~IsBlank(text) /\ EncodeRaises(text)

(***************************************************************************)
(* State.                                                                  *)
(***************************************************************************)
VARIABLES
  content,          \* _chunk_content: the text being chunked
  p,                \* self: max_tokens_per_chunk, chunk_overlap, chunk_size, batch_size
  lines,            \* _chunk_content: content.split('\n')
  pos,              \* _chunk_content: lines consumed by the loop so far
  st,               \* _chunk_content: chunks, current_chunk, current_tokens
  cpc,              \* _chunk_content: "start", "loop" or "done"
  repo,             \* the files under repo_path, in the order rglob gives them
  collection,       \* the ChromaDB collection: ID -> embedding, metadata, document
  run,              \* which run of vectorize_repository this is: 1 or 2
  pc,               \* vectorize_repository: where the run is
  files,            \* vectorize_repository: files
  i,                \* vectorize_repository: i, the start of the batch
  j,                \* vectorize_repository: files of the batch read so far
  batch_chunks,     \* vectorize_repository: batch_chunks
  status,           \* _process_chunks_batch: each task "created", "called" or "done"
  embeddings,       \* _process_chunks_batch: embeddings, as far as resolved
  processed_chunks, \* vectorize_repository: processed_chunks
  total_files,      \* vectorize_repository: total_files
  processed_files,  \* vectorize_repository: processed_files
  total_chunks,     \* vectorize_repository: total_chunks
  store_result,     \* _store_in_chromadb: "none", "skipped", "ok" or "error"
  requests,         \* history: per task, the request sent to the provider
  written,          \* history: the entries handed to collection.add so far
  events,           \* history: reads, calls, returns and store writes of the run
  faults,           \* history: the failed provider calls and store writes so far
  first_run,        \* history: the repository, the IDs and the faults at the end of run 1
  logged,           \* the line the run logged last
  validated,        \* history: the provider responses validated in the run
  failed,           \* history: the IDs of the batches whose store write failed in the run
  repo_exists,      \* os.path.exists(args.repo_path)
  exit_status,      \* the exit status of the script, None while it runs
  repo_path,        \* self.repo_path, as Path.parts
  file_path,        \* _get_all_files: the path rglob gave last, with what the file system says of it
  verdict,          \* _get_all_files: None, or whether file_path was yielded
  yielded,          \* history: the paths _get_all_files has yielded so far
  visits,           \* history: the paths rglob has given so far
  coll_exists,      \* the store has the collection "react_typescript_code"
  coll_creator,     \* history: the service that created it, or "none"
  coll_distances,   \* its entries' distances to the query, in the order the store returns them
  vectorizer,       \* RepositoryVectorizer: "off", or "ready" once constructed
  embedding_call,   \* _get_embedding: text, response body and result of the call in progress
  buscador,         \* busqueda._buscador
  spc,              \* buscar_codigo: "idle", "buscar", "query" or "done"
  calls,            \* history: the calls of buscar_codigo so far
  consulta,         \* buscar_codigo: consulta
  num_results,      \* buscar: num_results
  request,          \* the request body handed to invoke_model by the operation in progress
  response_body,    \* generar_embedding: response_body
  query_embedding,  \* buscar: query_embedding
  results,          \* buscar: the entries collection.query returned
  respuesta,        \* buscar_codigo: what it returns
  store_queries     \* history: the calls of collection.query so far

chunkVars == <<content, lines, pos, st, cpc>>

selectVars == <<repo_path, file_path, verdict, yielded, visits>>

runVars ==
  <<repo, collection, run, pc, files, i, j, batch_chunks, status, embeddings,
    processed_chunks, total_files, processed_files, total_chunks, store_result,
    requests, written, events, faults, first_run, logged, validated,
    failed, repo_exists, exit_status, selectVars>>

searchVars ==
  <<coll_exists, coll_creator, coll_distances, vectorizer, embedding_call,
    buscador, spc, calls, consulta, num_results, request, response_body,
    query_embedding, results, respuesta, store_queries>>

\* The variables of buscar_codigo and of one provider call.
queryVars ==
  <<embedding_call, buscador, spc, calls, consulta, num_results, request,
    response_body, query_embedding, results, respuesta, store_queries>>

vars == <<p, chunkVars, runVars, searchVars>>

\* The file selector, while it is not run.
SelectIdle ==
  /\ repo_path = <<>>
  /\ file_path = None
  /\ verdict = None
  /\ yielded = <<>>
  /\ visits = 0

\* The pipeline's variables, while the chunker alone is run.
RunIdle ==
  /\ repo = <<>>
  /\ collection = <<>>
  /\ run = 1
  /\ pc = "off"
  /\ files = <<>>
  /\ i = 0
  /\ j = 0
  /\ batch_chunks = <<>>
  /\ status = <<>>
  /\ embeddings = <<>>
  /\ processed_chunks = <<>>
  /\ total_files = 0
  /\ processed_files = 0
  /\ total_chunks = 0
  /\ store_result = "none"
  /\ requests = <<>>
  /\ written = {}
  /\ events = <<>>
  /\ faults = [embedding |-> 0, store |-> 0]
  /\ first_run = [ended |-> FALSE]
  /\ logged = None
  /\ validated = 0
  /\ failed = {}
  /\ repo_exists = TRUE
  /\ exit_status = None
  /\ SelectIdle

\* The query service and the client setup, while they are not run.
SearchIdle ==
  /\ coll_exists = FALSE
  /\ coll_creator = "none"
  /\ coll_distances = <<>>
  /\ vectorizer = "off"
  /\ embedding_call = None
  /\ buscador = None
  /\ spc = "off"
  /\ calls = 0
  /\ consulta = <<>>
  /\ num_results = 0
  /\ request = None
  /\ response_body = None
  /\ query_embedding = None
  /\ results = <<>>
  /\ respuesta = None
  /\ store_queries = 0

(***************************************************************************)
(* The vector store writer.                                                *)
(***************************************************************************)
RECURSIVE Digits(_)
\* str(n) for n >= 0
Digits(n) ==
  IF n < 10
  THEN <<CHOOSE d \in {"0", "1", "2", "3", "4", "5", "6", "7", "8", "9"} :
           d = ToString(n)>>
  ELSE Digits(n \div 10) \o Digits(n % 10)

\* The key of the first chunk of a file is the file's path alone.
ChunkKeyBare(metadata) ==
  IF metadata.chunk_index = 0 THEN metadata.file_path
  ELSE metadata.file_path \o <<"_">> \o Digits(metadata.chunk_index)

\* f"{file_path}_{chunk_index}"
ChunkKey(metadata) == metadata.file_path \o <<"_">> \o Digits(metadata.chunk_index)

\* hashlib.sha256(...).hexdigest(): equal digests for equal strings only.
Sha256(x) == [sha256 |-> x]

\* An ID that also depends on the chunk's text.
ChunkIdOfText(chunk) == Sha256(ChunkKey(chunk.metadata) \o <<"_">> \o chunk.text)

\* An ID numbered on from the number of entries the collection holds.
ChunkIdByCount(chunk) ==
  Sha256(Digits(Cardinality(DOMAIN collection) + chunk.metadata.chunk_index))

\* The ID _store_in_chromadb gives a chunk.
ChunkId(chunk) == Sha256(ChunkKey(chunk.metadata))

\* The entry of a chunk in the lists handed to collection.add.
Entry(chunk) ==
  [id |-> ChunkId(chunk),
   embedding |-> chunk.embedding,
   metadata |-> chunk.metadata,
   document |-> chunk.text]

Entries(chunks) == [k \in 1..Len(chunks) |-> Entry(chunks[k])]

IdsOf(entries) == {entries[k].id : k \in 1..Len(entries)}

\* The record a collection keeps under an ID.
Stored(entry) ==
  [embedding |-> entry.embedding, metadata |-> entry.metadata,
   document |-> entry.document]

\* The entries the collection holds of the files of the batch are deleted
\* before the batch is added.
CollectionReindex(coll, entries) ==
  LET paths == {entries[k].metadata.file_path : k \in 1..Len(entries)}
      kept == {id \in DOMAIN coll : coll[id].metadata.file_path \notin paths}
  IN [id \in kept \cup IdsOf(entries) |->
        IF id \in kept THEN coll[id]
        ELSE Stored(entries[CHOOSE k \in 1..Len(entries) : entries[k].id = id])]

\* collection.add when it raises nothing: the entries whose ID is new are
\* stored, an entry whose ID the collection already holds is left as it is.
CollectionAdd(coll, entries) ==
  [id \in DOMAIN coll \cup IdsOf(entries) |->
     IF id \in DOMAIN coll THEN coll[id]
     ELSE Stored(entries[CHOOSE k \in 1..Len(entries) : entries[k].id = id])]

\* collection.add raises for a batch that names an ID twice.
AddAccepts(entries) ==
  \A k1, k2 \in 1..Len(entries) : entries[k1].id = entries[k2].id => k1 = k2

(***************************************************************************)
(* SpecChunk: _chunk_content, one loop iteration per step.                 *)
(***************************************************************************)
ChunkInit ==
  /\ content \in ChunkerTexts
  /\ p \in ChunkerParams
  /\ lines = <<>>
  /\ pos = 0
  /\ st = EmptyChunker
  /\ cpc = "start"
  /\ RunIdle
  /\ SearchIdle

\* if not content.strip(): return []
ChunkBlank ==
  /\ cpc = "start"
  /\ IsBlank(content)
  /\ cpc' = "done"
  /\ UNCHANGED <<content, p, lines, pos, st, runVars, searchVars>>

\* lines = content.split('\n')
ChunkSplit ==
  /\ cpc = "start"
  /\ ~IsBlank(content)
  /\ lines' = Split(content)
  /\ cpc' = "loop"
  /\ UNCHANGED <<content, p, pos, st, runVars, searchVars>>

ChunkOversized ==
  /\ cpc = "loop"
  /\ pos < Len(lines)
  /\ IsOversized(lines[pos + 1], p)
  /\ st' = ProcessLine(st, lines[pos + 1], ChunkerMetadata(content), p)
  /\ pos' = pos + 1
  /\ UNCHANGED <<content, p, lines, cpc, runVars, searchVars>>

ChunkOverflow ==
  /\ cpc = "loop"
  /\ pos < Len(lines)
  /\ ~IsOversized(lines[pos + 1], p)
  /\ IsOverflow(st, lines[pos + 1], p)
  /\ st' = ProcessLine(st, lines[pos + 1], ChunkerMetadata(content), p)
  /\ pos' = pos + 1
  /\ UNCHANGED <<content, p, lines, cpc, runVars, searchVars>>

ChunkAppend ==
  /\ cpc = "loop"
  /\ pos < Len(lines)
  /\ ~IsOversized(lines[pos + 1], p)
  /\ ~IsOverflow(st, lines[pos + 1], p)
  /\ st' = ProcessLine(st, lines[pos + 1], ChunkerMetadata(content), p)
  /\ pos' = pos + 1
  /\ UNCHANGED <<content, p, lines, cpc, runVars, searchVars>>

ChunkFinal ==
  /\ cpc = "loop"
  /\ pos = Len(lines)
  /\ st' = FinalFlush(st, ChunkerMetadata(content))
  /\ cpc' = "done"
  /\ UNCHANGED <<content, p, lines, pos, runVars, searchVars>>

ChunkNext ==
  \/ ChunkBlank
  \/ ChunkSplit
  \/ ChunkOversized
  \/ ChunkOverflow
  \/ ChunkAppend
  \/ ChunkFinal

SpecChunk == ChunkInit /\ [][ChunkNext]_vars

\* The chunker's result agrees with _chunk_content computed as a whole.
ChunkerAgrees ==
  cpc = "done" => st.chunks = ChunkContent(content, ChunkerMetadata(content), p)

(***************************************************************************)
(* Claims about the chunker (checked under SpecChunk).                     *)
(***************************************************************************)
ChunkerDone == cpc = "done" /\ ~IsBlank(content)

\* The lines of a chunk that was flushed from the line buffer.
ChunkLinesOf(chunk) == Split(chunk.text)

\* C1: every chunk emitted outside the oversized-line slicing path has a
\* token count (the sum of the token counts of its lines) of at most
\* max_tokens_per_chunk, also a chunk seeded with the overlap lines of the
\* previous chunk.
C1_ChunkWithinBudget ==
  \A k \in 1..Len(st.chunks) :
    st.origin[k].kind = "lines"
      => SumTokens(ChunkLinesOf(st.chunks[k])) <= p.max_tokens_per_chunk

RECURSIVE Rebuild(_, _, _, _)
\* The lines got back from chunks k.. : a buffer chunk gives its lines
\* without the carried-over ones, a slice starts a line or continues the
\* last one.
Rebuild(chunks, origin, k, acc) ==
  IF k > Len(chunks) THEN acc
  ELSE LET o == origin[k]
           own == IF o.kind = "lines"
                  THEN LET ls == ChunkLinesOf(chunks[k])
                       IN acc \o SubSeq(ls, o.carried + 1, Len(ls))
                  ELSE IF o.first THEN Append(acc, chunks[k].text)
                  ELSE [acc EXCEPT ![Len(acc)] = @ \o chunks[k].text]
       IN Rebuild(chunks, origin, k + 1, own)

\* C2: for a non-blank text, the chunks in emission order, each without the
\* lines carried over as overlap, slices of an oversized line joined without
\* separator, give back exactly the lines of the text.
C2_Coverage ==
  ChunkerDone => Rebuild(st.chunks, st.origin, 1, <<>>) = Split(content)

\* A text where overlap lines were carried over and a later line was sliced.
C2_Witness ==
  /\ ChunkerDone
  /\ \E k \in 1..Len(st.chunks) : st.origin[k].carried > 0
  /\ \E k \in 1..Len(st.chunks) : st.origin[k].kind = "slice"
  /\ Len(Split(content)) > 2

\* The file has lines of one token count t >= 1 each, the budget holds at
\* least one of them and the overlap is less than floor(B / t).
UniformCase ==
  /\ cpc = "done"
  /\ \E l \in UniformLines, n \in 1..(MaxLines + 1) :
       /\ content = UniformFile(l, n)
       /\ p.chunk_overlap < p.max_tokens_per_chunk \div TokenCount(l)
       /\ n > p.max_tokens_per_chunk \div TokenCount(l)

LinesPerChunk == p.max_tokens_per_chunk \div TokenCount(Split(content)[1])

UniformOverlapHolds ==
  /\ Len(st.chunks) > 1
  /\ \A k \in 1..Len(st.chunks) : Len(ChunkLinesOf(st.chunks[k])) <= LinesPerChunk
  /\ \A k \in 1..(Len(st.chunks) - 1) :
       LET a == ChunkLinesOf(st.chunks[k])
           b == ChunkLinesOf(st.chunks[k + 1])
           n == p.chunk_overlap
       IN /\ Len(a) >= n
          /\ Len(b) >= n
          /\ SubSeq(a, Len(a) - n + 1, Len(a)) = SubSeq(b, 1, n)

\* C3: for a file of equal-token lines (more of them than fit one chunk),
\* budget B and overlap N < floor(B / t) there is more than one chunk, every
\* chunk has at most floor(B / t) lines and the last N lines of a chunk are
\* the first N lines of the next.
C3_UniformOverlap == UniformCase => UniformOverlapHolds

\* C3, for an overlap of at least one line: holds.
C3_UniformOverlapPositive ==
  (UniformCase /\ p.chunk_overlap >= 1) => UniformOverlapHolds

\* The spec's scenario scaled: 2 * floor(B / t) lines, overlap floor(B / t) - 1.
C3_Scenario ==
  /\ UniformCase
  /\ p.chunk_overlap >= 1
  /\ p.chunk_overlap = LinesPerChunk - 1
  /\ Len(Split(content)) = 2 * LinesPerChunk
  /\ Len(st.chunks) > 2

\* The file is one line (no line break) that alone exceeds the budget.
OneOversizedLine ==
  /\ cpc = "done"
  /\ content \in SingleLineFiles
  /\ IsOversized(content, p)

C24_IndicesInEmissionOrder ==
  /\ \A k \in 1..Len(st.chunks) : st.chunks[k].metadata.chunk_index = k - 1
  /\ \A k, m \in 1..Len(st.chunks) :
       st.chunks[k].metadata.chunk_index = st.chunks[m].metadata.chunk_index
         => k = m
  /\ cpc = "done" =>
       st.chunks = ChunkContent(content, ChunkerMetadata(content), p)

\* A text that gave a buffer chunk, then the slices of an oversized line,
\* then a buffer chunk again.
C24_Witness ==
  /\ ChunkerDone
  /\ \E k, m, n \in 1..Len(st.chunks) :
       /\ k < m
       /\ m + 1 < n
       /\ st.origin[k].kind = "lines"
       /\ st.origin[m].kind = "slice"
       /\ st.origin[m + 1].kind = "slice"
       /\ st.origin[n].kind = "lines"
       /\ st.chunks[n].metadata.chunk_index = n - 1

\* The chunker has emitted a chunk with the empty text: a buffer that held
\* one empty line, flushed before the slices of an oversized line.
EmptyChunkBeforeSlices ==
  /\ ChunkerDone
  /\ \E k \in 1..(Len(st.chunks) - 1) :
       /\ st.chunks[k].text = <<>>
       /\ st.origin[k].kind = "lines"
       /\ st.origin[k + 1].kind = "slice"

(***************************************************************************)
(* Spec: vectorize_repository, run twice over a small repository.          *)
(***************************************************************************)
MaxFiles == 2        \* most files of the repository, and largest batch_size
MaxFaults == 1       \* most failures (provider calls, store writes) over the runs

RECURSIVE Path(_)
\* The relative path of the k-th file: a, a_1, a_1_1, ...
Path(k) == IF k = 1 THEN <<"a">> ELSE Path(k - 1) \o <<"_", "1">>

\* What a file holds: one line, which gives one chunk; or a line over the
\* budget and a line break at the end of the file, which give two slices
\* and a chunk with the empty text.
FileTexts == {<<"a">>, <<"W", "a", NL>>}

\* A file can be read and holds a text, or opening it fails.
FileStates ==
  {[readable |-> TRUE, content |-> t] : t \in FileTexts \cup {<<Special>>}}
    \cup {[readable |-> FALSE, content |-> <<>>]}

Repos ==
  UNION {[1..n -> FileStates] : n \in 1..MaxFiles}

\* The repository with at most one file rewritten.
Edits(r) ==
  {r} \cup {[r EXCEPT ![k] = f] : k \in DOMAIN r, f \in FileStates}

\* The parameters of the vectorizer: a budget of 2 tokens, 1 line of overlap,
\* slices of 1 character.
RunParams ==
  {[max_tokens_per_chunk |-> 2, chunk_overlap |-> 1, chunk_size |-> 1,
    batch_size |-> b] : b \in 1..MaxFiles}

\* list(self._get_all_files()): the paths, in discovery order.
GetAllFiles(r) == [k \in DOMAIN r |-> Path(k)]

\* The file of the repository at a path.
FileAt(r, path) == r[CHOOSE k \in DOMAIN r : Path(k) = path]

\* _get_file_metadata
GetFileMetadata(r, path) ==
  [file_path |-> path, file_size |-> Len(FileAt(r, path).content)]

\* _read_file_content: None when the file cannot be read.
ReadFileContent(r, path) ==
  IF ~FileAt(r, path).readable THEN None
  ELSE [t |-> "FileContent", path |-> path, content |-> FileAt(r, path).content,
        metadata |-> GetFileMetadata(r, path)]

\* The result of a task that has not resolved yet.
Pending == [t |-> "pending"]

WithEmbedding(chunk, embedding) ==
  [text |-> chunk.text, metadata |-> chunk.metadata, embedding |-> embedding]

RECURSIVE ProcessedReversed(_, _, _)
\* The results are paired with the chunks in reverse order.
ProcessedReversed(chunks, embs, k) ==
  IF k > Len(chunks) THEN <<>>
  ELSE (IF Truthy(embs[Len(chunks) + 1 - k])
        THEN <<WithEmbedding(chunks[k], embs[Len(chunks) + 1 - k])>>
        ELSE <<>>)
       \o ProcessedReversed(chunks, embs, k + 1)

RECURSIVE ProcessedUntilFailure(_, _, _)
\* The loop over the results ends at the first chunk without embedding.
ProcessedUntilFailure(chunks, embs, k) ==
  IF k > Len(chunks) THEN <<>>
  ELSE IF Truthy(embs[k])
       THEN <<WithEmbedding(chunks[k], embs[k])>>
            \o ProcessedUntilFailure(chunks, embs, k + 1)
       ELSE <<>>

RECURSIVE ProcessedAll(_, _, _)
\* Every chunk of the batch is kept, with whatever its task returned.
ProcessedAll(chunks, embs, k) ==
  IF k > Len(chunks) THEN <<>>
  ELSE <<WithEmbedding(chunks[k], embs[k])>> \o ProcessedAll(chunks, embs, k + 1)

RECURSIVE ProcessedChunks(_, _, _)
\* _process_chunks_batch after gather: for chunk, embedding in zip(...),
\* from position k on.
ProcessedChunks(chunks, embs, k) ==
  IF k > Len(chunks) THEN <<>>
  ELSE (IF Truthy(embs[k]) THEN <<WithEmbedding(chunks[k], embs[k])>> ELSE <<>>)
       \o ProcessedChunks(chunks, embs, k + 1)

\* The files of the batch, last to first.
BatchFilesBackwards ==
  [k \in 1..(Min(i + p.batch_size, Len(files)) - i) |->
     files[Min(i + p.batch_size, Len(files)) + 1 - k]]

\* files[i:i + self.batch_size]
BatchFiles == SubSeq(files, i + 1, Min(i + p.batch_size, Len(files)))

\* The number of the batch, from 0.
Batch == i \div p.batch_size

Event(ev) == [ev |-> ev, batch |-> Batch]

\* The file_path and chunk_index of the chunks handed to _store_in_chromadb,
\* in the order of the lists it builds.
KeysOf(chunks) ==
  [k \in 1..Len(chunks) |->
     [file_path |-> chunks[k].metadata.file_path,
      chunk_index |-> chunks[k].metadata.chunk_index]]

\* The call of invoke_model for chunk k of the batch, and its end, in the
\* history of the run.
CallEvent(k) ==
  [ev |-> "call", batch |-> Batch, key |-> KeysOf(batch_chunks)[k]]

ReturnEvent(k, result) ==
  [ev |-> "return", batch |-> Batch, key |-> KeysOf(batch_chunks)[k],
   ok |-> result # None]

\* The call of _store_in_chromadb, in the history of the run.
StoreEvent(chunks) ==
  [ev |-> "store", batch |-> Batch, keys |-> KeysOf(chunks)]

\* gather has the result of some task.
SomeResolved == \E k \in DOMAIN status : status[k] = "done"

\* gather has the results of all tasks.
AllResolved == \A k \in DOMAIN status : status[k] = "done"

\* A task whose provider call has failed is run again.
MayRunAgain(k) ==
  /\ \/ status[k] = "created"
     \/ status[k] = "done" /\ requests[k] # None /\ embeddings[k] = None
  /\ \A m \in 1..(k - 1) : status[m] = "done"

\* The tasks run one after the other, in the order gather was given them:
\* _get_embedding never awaits, so a task that has started runs to its end.
MayRun(k) ==
  /\ status[k] = "created"
  /\ \A m \in 1..(k - 1) : status[m] = "done"

\* There have been fewer failures than the model allows.
MayFail == faults.embedding + faults.store < MaxFaults

Init ==
  /\ p \in RunParams
  /\ repo_exists \in BOOLEAN
  /\ repo \in (IF repo_exists THEN Repos ELSE {<<>>})
  /\ exit_status = None
  /\ collection = <<>>
  /\ run = 1
  /\ pc = "main"
  /\ files = <<>>
  /\ i = 0
  /\ j = 0
  /\ batch_chunks = <<>>
  /\ status = <<>>
  /\ embeddings = <<>>
  /\ processed_chunks = <<>>
  /\ total_files = 0
  /\ processed_files = 0
  /\ total_chunks = 0
  /\ store_result = "none"
  /\ requests = <<>>
  /\ written = {}
  /\ events = <<>>
  /\ faults = [embedding |-> 0, store |-> 0]
  /\ first_run = [ended |-> FALSE]
  /\ logged = None
  /\ validated = 0
  /\ failed = {}
  /\ content = <<>>
  /\ lines = <<>>
  /\ pos = 0
  /\ st = EmptyChunker
  /\ cpc = "off"
  /\ SearchIdle
  /\ SelectIdle

\* main up to the call of vectorize_repository: a repository path that
\* does not exist is logged and main returns; else the vectorizer is
\* constructed, and with it the clients and the collection.
Main ==
  /\ pc = "main"
  /\ IF ~repo_exists
     THEN /\ logged' = LogLine("error", "El directorio no existe")
          /\ exit_status' = Num(0)
          /\ pc' = "exited"
          /\ UNCHANGED <<vectorizer, coll_exists, coll_creator>>
     ELSE /\ vectorizer' = "ready"
          /\ coll_exists' = TRUE
          /\ coll_creator' = IF coll_exists THEN coll_creator ELSE "pipeline"
          /\ pc' = "start"
          /\ UNCHANGED <<logged, exit_status>>
  /\ UNCHANGED <<p, chunkVars, queryVars, selectVars, coll_distances,
                 repo_exists, repo,
                 collection, run, files, i, j, batch_chunks, status,
                 embeddings, processed_chunks, total_files, processed_files,
                 total_chunks, store_result, requests, written, events,
                 faults, first_run, validated, failed>>

\* vectorize_repository up to the batch loop.
StartRun ==
  /\ pc = "start"
  /\ files' = GetAllFiles(repo)
  /\ total_files' = Len(GetAllFiles(repo))
  /\ processed_files' = 0
  /\ total_chunks' = 0
  /\ i' = 0
  /\ j' = 0
  /\ batch_chunks' = <<>>
  /\ pc' = IF Len(GetAllFiles(repo)) > 0 THEN "read" ELSE "summary"
  /\ UNCHANGED <<p, chunkVars, searchVars, selectVars, repo_exists, exit_status,
                 repo, collection, run, status, embeddings,
                 processed_chunks, store_result, requests, written, events,
                 faults, first_run, logged,
                 validated, failed>>

\* One iteration of "for file_path in batch_files".  An unreadable file is
\* logged and skipped; an exception of _chunk_content is caught nowhere in
\* vectorize_repository and ends the run in main's handler.
ReadFile ==
  /\ pc = "read"
  /\ j < Len(BatchFiles)
  /\ LET file_content == ReadFileContent(repo, BatchFiles[j + 1])
     IN IF file_content = None
        THEN /\ logged' = LogLine("error", "Error leyendo")
             /\ j' = j + 1
             /\ UNCHANGED <<batch_chunks, processed_files, pc, exit_status>>
        ELSE IF ChunkContentRaises(file_content.content)
        THEN /\ logged' = LogLine("error", "Error durante la vectorizacion")
             /\ pc' = "aborted"
             /\ exit_status' = Num(1)
             /\ UNCHANGED <<batch_chunks, processed_files, j>>
        ELSE /\ batch_chunks' =
                  batch_chunks \o ChunkContent(file_content.content,
                                               file_content.metadata, p)
             /\ processed_files' = processed_files + 1
             /\ j' = j + 1
             /\ UNCHANGED <<logged, pc, exit_status>>
  /\ events' = Append(events, Event("read"))
  /\ UNCHANGED <<p, chunkVars, searchVars, selectVars, repo_exists,
                 repo, collection, run, files, i, status,
                 embeddings, processed_chunks, total_files, total_chunks,
                 store_result, requests, written, faults, first_run, validated,
                 failed>>

\* The i of the next batch, or the end of the loop.
NextBatch ==
  /\ i' = i + p.batch_size
  /\ j' = 0
  /\ pc' = IF i + p.batch_size < total_files THEN "read" ELSE "summary"

\* "if batch_chunks:" is false: nothing to embed or store.
SkipBatch ==
  /\ pc = "read"
  /\ j = Len(BatchFiles)
  /\ batch_chunks = <<>>
  /\ NextBatch
  /\ UNCHANGED <<p, chunkVars, searchVars, selectVars, repo_exists, exit_status,
                 repo, collection, run, files, batch_chunks,
                 status, embeddings, processed_chunks, total_files,
                 processed_files, total_chunks, store_result, requests,
                 written, events, faults, first_run, logged,
                 validated, failed>>

\* _process_chunks_batch: one coroutine per chunk, handed to gather.
CreateTasks ==
  /\ pc = "read"
  /\ j = Len(BatchFiles)
  /\ batch_chunks # <<>>
  /\ status' = [k \in 1..Len(batch_chunks) |-> "created"]
  /\ embeddings' = [k \in 1..Len(batch_chunks) |-> Pending]
  /\ requests' = [k \in 1..Len(batch_chunks) |-> None]
  /\ pc' = "gather"
  /\ UNCHANGED <<p, chunkVars, searchVars, selectVars, repo_exists, exit_status,
                 repo, collection, run, files, i, j,
                 batch_chunks, processed_chunks, total_files, processed_files,
                 total_chunks, store_result, written, events, faults,
                 first_run, logged,
                 validated, failed>>

\* _get_embedding returns None for a text it rejects, without any call.
RejectText ==
  /\ pc = "gather"
  /\ \E k \in DOMAIN status :
       /\ MayRun(k)
       /\ RejectsText(batch_chunks[k].text)
       /\ status' = [status EXCEPT ![k] = "done"]
       /\ embeddings' = [embeddings EXCEPT ![k] = None]
  /\ logged' = LogLine("error", "Texto de entrada invalido para embedding")
  /\ UNCHANGED <<p, chunkVars, searchVars, selectVars, repo_exists, exit_status,
                 repo, collection, run, pc, files, i, j,
                 batch_chunks, processed_chunks, total_files, processed_files,
                 total_chunks, store_result, requests, written, events, faults,
                 first_run, validated, failed>>

\* _get_embedding calls invoke_model.
IssueCall ==
  /\ pc = "gather"
  /\ \E k \in DOMAIN status :
       /\ MayRun(k)
       /\ ~RejectsText(batch_chunks[k].text)
       /\ status' = [status EXCEPT ![k] = "called"]
       /\ requests' = [requests EXCEPT ![k] = RequestBody(batch_chunks[k].text)]
       /\ events' = Append(events, CallEvent(k))
  /\ UNCHANGED <<p, chunkVars, searchVars, selectVars, repo_exists, exit_status,
                 repo, collection, run, pc, files, i, j,
                 batch_chunks, embeddings, processed_chunks, total_files,
                 processed_files, total_chunks, store_result, written, faults,
                 first_run, logged,
                 validated, failed>>

\* invoke_model returns or raises, and _get_embedding returns.
ReturnCall ==
  /\ pc = "gather"
  /\ \E k \in DOMAIN status :
       /\ status[k] = "called"
       /\ \E outcome \in ProviderOutcomes(requests[k]) :
            /\ GetEmbeddingResult(outcome) = None => MayFail
            /\ embeddings' = [embeddings EXCEPT ![k] = GetEmbeddingResult(outcome)]
            /\ faults' = [faults EXCEPT !.embedding =
                            IF GetEmbeddingResult(outcome) = None THEN @ + 1 ELSE @]
            /\ logged' = GetEmbeddingLog(outcome)
            /\ validated' = IF GetEmbeddingResult(outcome) = None
                            THEN validated ELSE validated + 1
            /\ events' = Append(events,
                                ReturnEvent(k, GetEmbeddingResult(outcome)))
       /\ status' = [status EXCEPT ![k] = "done"]
  /\ UNCHANGED <<p, chunkVars, searchVars, selectVars, repo_exists, exit_status,
                 repo, collection, run, pc, files, i, j,
                 batch_chunks, processed_chunks, total_files, processed_files,
                 total_chunks, store_result, requests, written, first_run,
                 failed>>

\* gather returns; _process_chunks_batch keeps the chunks with an embedding.
Collect ==
  /\ pc = "gather"
  /\ AllResolved
  /\ processed_chunks' = ProcessedChunks(batch_chunks, embeddings, 1)
  /\ total_chunks' =
       total_chunks + Len(ProcessedChunks(batch_chunks, embeddings, 1))
  /\ pc' = "store"
  /\ UNCHANGED <<p, chunkVars, searchVars, selectVars, repo_exists, exit_status,
                 repo, collection, run, files, i, j,
                 batch_chunks, status, embeddings, total_files,
                 processed_files, store_result, requests, written, events,
                 faults, first_run, logged,
                 validated, failed>>

\* _store_in_chromadb with no chunk: returns at once.
StoreNothing ==
  /\ pc = "store"
  /\ processed_chunks = <<>>
  /\ store_result' = "skipped"
  /\ events' = Append(events, StoreEvent(processed_chunks))
  /\ pc' = "release"
  /\ UNCHANGED <<p, chunkVars, searchVars, selectVars, repo_exists, exit_status,
                 repo, collection, run, files, i, j,
                 batch_chunks, status, embeddings, processed_chunks,
                 total_files, processed_files, total_chunks, requests,
                 written, faults, first_run, logged,
                 validated, failed>>

\* _store_in_chromadb: one collection.add for the batch; an exception of
\* the store is logged and nothing else is done about it.  collection.add
\* either skips the entries whose ID the collection holds, or (in older
\* versions of the store) raises for a batch that has one; it can also fail
\* for reasons of its own.
StoreBatch ==
  /\ pc = "store"
  /\ processed_chunks # <<>>
  /\ written' = written \cup {Entries(processed_chunks)[k] :
                                k \in 1..Len(processed_chunks)}
  /\ \/ /\ AddAccepts(Entries(processed_chunks))
        /\ collection' = CollectionAdd(collection, Entries(processed_chunks))
        /\ store_result' = "ok"
        /\ logged' = [level |-> "info", msg |-> "Almacenados",
                       chunks |-> Len(processed_chunks)]
        /\ UNCHANGED <<faults, failed>>
     \/ /\ IdsOf(Entries(processed_chunks)) \cap DOMAIN collection # {}
        /\ store_result' = "error"
        /\ faults' = [faults EXCEPT !.store = @ + 1]
        /\ logged' = LogStoreError(logged)
        /\ failed' = failed \cup IdsOf(Entries(processed_chunks))
        /\ UNCHANGED collection
     \/ /\ MayFail
        /\ store_result' = "error"
        /\ faults' = [faults EXCEPT !.store = @ + 1]
        /\ logged' = LogStoreError(logged)
        /\ failed' = failed \cup IdsOf(Entries(processed_chunks))
        /\ UNCHANGED collection
  /\ events' = Append(events, StoreEvent(processed_chunks))
  /\ pc' = "release"
  /\ UNCHANGED <<p, chunkVars, searchVars, selectVars, repo_exists, exit_status,
                 repo, run, files, i, j, batch_chunks, status,
                 embeddings, processed_chunks, total_files, processed_files,
                 total_chunks, requests, first_run, validated>>

\* del batch_chunks, processed_chunks; gc.collect(); the next batch.
Release ==
  /\ pc = "release"
  /\ batch_chunks' = <<>>
  /\ processed_chunks' = <<>>
  /\ status' = <<>>
  /\ embeddings' = <<>>
  /\ requests' = <<>>
  /\ store_result' = "none"
  /\ NextBatch
  /\ UNCHANGED <<p, chunkVars, searchVars, selectVars, repo_exists, exit_status,
                 repo, collection, run, files, total_files,
                 processed_files, total_chunks, written, events, faults,
                 first_run, logged,
                 validated, failed>>

\* The lines of the end-of-run summary: "Archivos procesados: x/y",
\* "Total chunks creados: z", "Coleccion: name".
SummaryLine ==
  [level |-> "info", msg |-> "Vectorizacion completada",
   archivos_procesados |-> processed_files,
   archivos |-> total_files,
   total_chunks_creados |-> total_chunks,
   coleccion |-> "react_typescript_code"]

\* The end-of-run summary; main returns and the script ends.
Summary ==
  /\ pc = "summary"
  /\ pc' = "done"
  /\ logged' = SummaryLine
  /\ exit_status' = Num(0)
  /\ first_run' = IF run = 1
                  THEN [ended |-> TRUE, repo |-> repo,
                        ids |-> DOMAIN collection, faults |-> faults]
                  ELSE first_run
  /\ UNCHANGED <<p, chunkVars, searchVars, selectVars, repo_exists,
                 repo, collection, run, files, i, j,
                 batch_chunks, status, embeddings, processed_chunks,
                 total_files, processed_files, total_chunks, store_result,
                 requests, written, events, faults, validated, failed>>

\* The script is started again, on the repository as it is by then, with
\* the collection the first run left.
Rerun ==
  /\ pc = "done"
  /\ run = 1
  /\ repo' \in Edits(repo)
  /\ run' = 2
  /\ pc' = "main"
  /\ exit_status' = None
  /\ vectorizer' = "off"
  /\ events' = <<>>
  /\ logged' = None
  /\ validated' = 0
  /\ failed' = {}
  /\ UNCHANGED <<p, chunkVars, queryVars, selectVars, coll_exists,
                 coll_creator, coll_distances, repo_exists,
                 collection, files, i, j, batch_chunks, status,
                 embeddings, processed_chunks, total_files, processed_files,
                 total_chunks, store_result, requests, written, faults,
                 first_run>>

Next ==
  \/ Main
  \/ StartRun
  \/ ReadFile
  \/ SkipBatch
  \/ CreateTasks
  \/ RejectText
  \/ IssueCall
  \/ ReturnCall
  \/ Collect
  \/ StoreNothing
  \/ StoreBatch
  \/ Release
  \/ Summary
  \/ Rerun

Spec == Init /\ [][Next]_vars

(***************************************************************************)
(* Claims about the writer and the batch loop (checked under Spec).        *)
(***************************************************************************)
\* C5: the ID under which a chunk is written depends on its file_path and
\* chunk_index only: entries handed to the store with the same file_path
\* and chunk_index have the same ID, whatever their text and embedding, in
\* one run or in two.
C5_IdFromPathAndIndex ==
  \A e1, e2 \in written :
    (/\ e1.metadata.file_path = e2.metadata.file_path
     /\ e1.metadata.chunk_index = e2.metadata.chunk_index)
      => e1.id = e2.id

\* Two runs wrote chunks of one place with different text and embedding.
C5_Witness ==
  \E e1, e2 \in written :
    /\ e1.metadata.file_path = e2.metadata.file_path
    /\ e1.metadata.chunk_index = e2.metadata.chunk_index
    /\ e1.document # e2.document
    /\ e1.embedding # e2.embedding
    /\ e1.id = e2.id

\* C6: after _store_in_chromadb has written a batch, the collection holds
\* for every ID of the batch the embedding, metadata and document of that
\* batch, also when the ID was in the collection before.
C6_WriterUpserts ==
  store_result = "ok" =>
    \A k \in 1..Len(processed_chunks) :
      /\ ChunkId(processed_chunks[k]) \in DOMAIN collection
      /\ collection[ChunkId(processed_chunks[k])] =
           Stored(Entry(processed_chunks[k]))

\* The second run is over, on the repository of the first run, and no
\* provider call failed in either run.
RerunOfUnchanged ==
  /\ run = 2
  /\ pc = "done"
  /\ first_run.ended
  /\ repo = first_run.repo
  /\ faults.embedding = 0

BatchProcessed == pc \in {"store", "release"}

\* The provider call of chunk k of the batch failed.
CallFailed(k) == requests[k] # None /\ embeddings[k] = None

\* The chunks of the batch whose call gave a validated vector.
Embedded == {k \in 1..Len(batch_chunks) : embeddings[k].t = "list"}

\* The m-th of them, in batch order.
NthEmbedded(m) ==
  CHOOSE k \in Embedded : Cardinality({x \in Embedded : x <= k}) = m

\* C8: the chunks handed to the writer are exactly the chunks of the batch
\* whose embedding call returned a validated vector, in batch order, each
\* with the vector the provider computed for its own text.
C8_PairingKept ==
  BatchProcessed =>
    /\ Len(processed_chunks) = Cardinality(Embedded)
    /\ \A m \in 1..Len(processed_chunks) :
         LET c == batch_chunks[NthEmbedded(m)]
         IN /\ processed_chunks[m].text = c.text
            /\ processed_chunks[m].metadata = c.metadata
            /\ processed_chunks[m].embedding = Vector(RequestBody(c.text).inputText)

\* A batch where a dropped chunk comes before two chunks with different
\* vectors.
C8_Witness ==
  /\ BatchProcessed
  /\ Len(processed_chunks) >= 2
  /\ processed_chunks[1].embedding # processed_chunks[2].embedding
  /\ \E k \in 1..Len(batch_chunks) : CallFailed(k) /\ k < NthEmbedded(1)

\* C9: within a batch, a failed embedding call of one chunk never keeps the
\* call of another chunk from being made, nor its result from being handed
\* to the store and written.
C9_FailureIsolated ==
  BatchProcessed =>
    \A f, k \in 1..Len(batch_chunks) :
      (f # k /\ CallFailed(f) /\ batch_chunks[k].text # <<>>) =>
        /\ requests[k] # None
        /\ embeddings[k].t = "list" =>
             /\ \E m \in 1..Len(processed_chunks) :
                  processed_chunks[m] = WithEmbedding(batch_chunks[k], embeddings[k])
             /\ store_result = "ok" =>
                  ChunkId(batch_chunks[k]) \in DOMAIN collection

\* A call failed, the calls before and after it succeeded and their chunks
\* are in the collection.
C9_Witness ==
  /\ pc = "release"
  /\ store_result = "ok"
  /\ \E a, f, b \in 1..Len(batch_chunks) :
       /\ a < f
       /\ f < b
       /\ CallFailed(f)
       /\ embeddings[a].t = "list"
       /\ embeddings[b].t = "list"
       /\ ChunkId(batch_chunks[a]) \in DOMAIN collection
       /\ ChunkId(batch_chunks[b]) \in DOMAIN collection

\* The events of batch n among the first x - 1 events.
Before(x, ev, n) ==
  {y \in 1..(x - 1) : events[y].ev = ev /\ events[y].batch = n}

\* C10: no file of batch n + 1 is read and no embedding call of batch n + 1
\* is issued before every embedding call of batch n has resolved and the
\* store write of batch n has returned.
C10_BatchesInSequence ==
  \A x \in 1..Len(events) :
    (events[x].ev \in {"read", "call"} /\ events[x].batch > 0) =>
      LET n == events[x].batch - 1
      IN /\ Cardinality(Before(x, "call", n)) = Cardinality(Before(x, "return", n))
         /\ Before(x, "call", n) # {} => Before(x, "store", n) # {}
         /\ \A y \in (x + 1)..Len(events) : events[y].batch # n

\* The second batch issues a call after the first batch's calls and store
\* write.
C10_Witness ==
  \E x \in 1..Len(events) :
    /\ events[x].ev = "call"
    /\ events[x].batch = 1
    /\ Cardinality(Before(x, "call", 0)) > 1
    /\ Before(x, "store", 0) # {}

\* The provider call of a later chunk of the batch has been issued while
\* the call of an earlier chunk has been issued and has not returned.
CallsOverlap ==
  /\ pc = "gather"
  /\ \E k, m \in DOMAIN status :
       k < m /\ status[k] = "called" /\ requests[m] # None

\* No state has two provider calls of a batch in flight.
CallsInSequence == ~CallsOverlap

\* The provider calls of batch n.
CallsOf(n) == {x \in 1..Len(events) : events[x].ev = "call" /\ events[x].batch = n}

\* C11: within a batch the embedding requests are issued without waiting
\* for each other: in every batch that makes two provider calls or more,
\* the call of a later chunk is issued while the call of an earlier chunk
\* has not returned.
C11_IssuedWithoutWaiting ==
  (BatchProcessed /\ Cardinality(CallsOf(Batch)) >= 2) =>
    \E x \in CallsOf(Batch) :
      Cardinality(Before(x, "call", Batch)) > Cardinality(Before(x, "return", Batch))

\* The store events of batch n among the events e.
StoresOf(e, n) == {y \in 1..Len(e) : e[y].ev = "store" /\ e[y].batch = n}

\* C12: when the store write of a batch fails, the failure is logged, the
\* collection is left as it was, the write is not made again (one store
\* write per batch), the run goes on to the next batch, and for the rest of
\* the run no ID of a failed batch that was not in the collection gets into
\* it.
C12_StoreFailureSkipsBatch ==
  [][/\ (pc = "store" /\ store_result' = "error") =>
          /\ logged' = LogLine("error", "Error almacenando en ChromaDB")
          /\ collection' = collection
          /\ pc' = "release"
     /\ (pc = "release" /\ store_result = "error") =>
          /\ written' = written
          /\ collection' = collection
          /\ i' = i + p.batch_size
          /\ pc' = IF i' < total_files THEN "read" ELSE "summary"
     /\ \A n \in 0..Len(files') : Cardinality(StoresOf(events', n)) <= 1
     /\ run' = run =>
          \A id \in failed :
            id \notin DOMAIN collection => id \notin DOMAIN collection'
    ]_vars

\* The write of an earlier batch failed, the write of a later batch of the
\* same run went through, and the failed batch's IDs are not in the
\* collection.
C12_Witness ==
  /\ pc = "release"
  /\ store_result = "ok"
  /\ failed # {}
  /\ failed \cap DOMAIN collection = {}
  /\ collection # <<>>

\* C13: whatever failures of files, chunks and store writes occur, the run
\* is never aborted and never stops before its end-of-run summary.
C13_RunReachesSummary ==
  /\ pc # "aborted"
  /\ pc # "done" => ENABLED Next

\* The task of the batch that resolved last.
LastResolved ==
  CHOOSE k \in DOMAIN status :
    status[k] = "done" /\ \A m \in DOMAIN status : status[m] = "done" => m <= k

\* Chunk k of the batch is among the chunks handed to the writer.
Kept(k) ==
  \E m \in 1..Len(processed_chunks) :
    processed_chunks[m].metadata = batch_chunks[k].metadata

\* The last line logged is an error of _get_embedding about the provider's
\* response to a task of this batch (every task logs a line when it ends).
ProviderErrorLogged ==
  /\ \E k \in DOMAIN status : status[k] = "done"
  /\ logged # None
  /\ logged.msg \in {"Error de validacion en respuesta AWS",
                     "Error obteniendo embedding"}

\* C15: a chunk whose provider response fails validation (an empty
\* embedding list is logged as a validation error) gets no embedding and
\* is not handed to the writer, and the chunk count of the run, which the
\* summary reports, is the number of validated provider responses of the
\* run.
C15_DroppedNeverCounted ==
  /\ (pc \in {"gather", "store"} /\ ProviderErrorLogged) =>
       /\ embeddings[LastResolved] = None
       /\ BatchProcessed => ~Kept(LastResolved)
  /\ BatchProcessed =>
       \A k \in 1..Len(batch_chunks) : embeddings[k] = None => ~Kept(k)
  /\ pc \in {"read", "store", "release", "summary"} => total_chunks = validated
  /\ pc = "done" => logged.total_chunks_creados = validated

\* The last batch of the run lost its chunk to the response
\* {"embedding": []}, an earlier batch had a validated embedding, and the
\* count about to be reported leaves the lost chunk out.
C15_Witness ==
  /\ pc = "summary"
  /\ logged = [level |-> "error", msg |-> "Error de validacion en respuesta AWS",
               e |-> "empty"]
  /\ validated > 0
  /\ total_chunks = validated
  /\ processed_files > validated

RECURSIVE ChunksCreated(_, _)
\* The chunks the chunker makes of the first k files of the repository.
ChunksCreated(r, k) ==
  IF k = 0 THEN 0
  ELSE ChunksCreated(r, k - 1)
       + (IF r[k].readable /\ ~ChunkContentRaises(r[k].content)
          THEN Len(ChunkContent(r[k].content, GetFileMetadata(r, Path(k)), p))
          ELSE 0)

\* The chunk counts the summary reports.
ReportedChunkCounts == {logged.total_chunks_creados}

\* C16: the summary reports the chunks created and the chunks embedded, so
\* that a run that dropped a chunk shows a number of chunks created that is
\* greater than the number of chunks embedded.
C16_SummaryShowsDrops ==
  (pc = "done" /\ ChunksCreated(repo, Len(repo)) > validated) =>
    /\ ChunksCreated(repo, Len(repo)) \in ReportedChunkCounts
    /\ validated \in ReportedChunkCounts

(***************************************************************************)
(* Python floats, scaled down: binary floating point with a mantissa of    *)
(* MantBits bits, round to nearest, ties to even.  Numbers are counted in  *)
(* units of the smallest positive float, so that every float is an         *)
(* integer and 1.0 is One.                                                 *)
(***************************************************************************)
MantBits == 3        \* bits of the mantissa (53 in a Python float)

\* 1.0: with it the floats just below 1.0 are two units apart.
One == 2 ^ (MantBits + 1)

\* The largest float the model uses: 2.0
MaxFloat == 2 * One

Abs(x) == IF x >= 0 THEN x ELSE -x

\* a = m * 2^e with a mantissa m of MantBits bits.
IsFloat(a) ==
  \E e \in 0..MantBits : a % (2 ^ e) = 0 /\ a \div (2 ^ e) < 2 ^ MantBits

Floats == {a \in 0..MaxFloat : IsFloat(a)}

\* The float nearest to a >= 0, ties to the even mantissa.
RoundAbs(a) ==
  IF IsFloat(a) THEN a
  ELSE LET lo == CHOOSE f \in Floats : f < a /\ \A g \in Floats : g < a => g <= f
           hi == CHOOSE f \in Floats : f > a /\ \A g \in Floats : g > a => g >= f
       IN IF a - lo < hi - a THEN lo
          ELSE IF a - lo > hi - a THEN hi
          ELSE IF (lo \div (hi - lo)) % 2 = 0 THEN lo ELSE hi

\* The float nearest to x.
RoundF(x) == IF x >= 0 THEN RoundAbs(x) ELSE 0 - RoundAbs(0 - x)

\* float(d)
ToFloat(d) == RoundF(d)

\* The relevance without its sign.
RelevanciaSinSigno(d) == RoundAbs(Abs(One - ToFloat(d)))

\* 1 - float(distance), computed in floats.
Relevancia(d) == RoundF(One - ToFloat(d))

(***************************************************************************)
(* SpecSearch: the query service (tools/busqueda.py), beside the client    *)
(* setup and the provider call of the indexing pipeline, on one store and  *)
(* one provider.                                                           *)
(***************************************************************************)
MAX_RESULTS == 5
MaxEntries == 2      \* most entries of the collection
MaxVector == 2       \* longest list in a provider response
MaxCalls == 2        \* most calls of buscar_codigo

\* BuscadorSemantico._validar_respuesta_bedrock
ValidarRespuestaBedrock(body) ==
  IF body.t # "dict" THEN Raised("not a dict")
  ELSE IF "embedding" \notin DOMAIN body.v THEN Raised("no embedding")
  ELSE LET embedding == body.v.embedding
       IN IF embedding.t # "list" THEN Raised("not a list")
          ELSE IF embedding.v = <<>> THEN Raised("empty")
          ELSE IF \E k \in 1..Len(embedding.v) : ~IsIntOrFloat(embedding.v[k])
               THEN Raised("not numeric")
          ELSE Returned(embedding)

\* What json.loads can give as an element of a list: a number, true, a
\* string.
JsonElements == {Num(1), Bool(TRUE), Str(<<"x">>)}

JsonLists == UNION {[1..n -> JsonElements] : n \in 0..MaxVector}

\* The response bodies of the provider, of every shape the validators tell
\* apart.
ResponseBodies ==
  {Str(<<"x">>), Num(1), List(<<Num(1)>>), None,
   Dict([message |-> Str(<<"x">>)])}
    \cup {Dict([embedding |-> e]) : e \in {Str(<<"x">>), Num(1), None}}
    \cup {Dict([embedding |-> List(l)]) : l \in JsonLists}

\* What invoke_model and the reading of its body can give.
SearchOutcomes ==
  {[kind |-> "transport"], [kind |-> "json"]}
    \cup {[kind |-> "body", body |-> b] : b \in ResponseBodies}

\* The texts handed to the two services: empty, short, and one character
\* over the provider's limit.
Queries == {<<>>, <<"a">>, Repeat("a", InputLimit + 1)}

\* Distances of entries to a query: 0, the smallest positive float and 1.5.
Distances == {0, 1, One + One \div 2}

\* The collections: the distances of the entries, in the order in which
\* collection.query returns them.
Stores == UNION {[1..n -> Distances] : n \in 0..MaxEntries}

\* collection.query(n_results=...): the first n_results entries, with
\* their documents, metadatas and distances.
CollectionQuery(dists, n_results) ==
  [k \in 1..Min(n_results, Len(dists)) |->
     [document |-> Path(k), metadata |-> [file_path |-> Path(k)],
      distance |-> dists[k]]]

\* The results are formatted last to first.
FormatResultsReversed(res) ==
  [k \in 1..Len(res) |->
     [contenido |-> res[Len(res) + 1 - k].document,
      metadata |-> res[Len(res) + 1 - k].metadata,
      relevancia |-> Relevancia(res[Len(res) + 1 - k].distance)]]

\* buscar: formatted_results
FormatResults(res) ==
  [k \in 1..Len(res) |->
     [contenido |-> res[k].document,
      metadata |-> res[k].metadata,
      relevancia |-> Relevancia(res[k].distance)]]

\* The constructor gets the collection or creates it.
GetOrCreateCollection(exists) == [ok |-> TRUE, exists |-> TRUE]

\* BuscadorSemantico.__init__: get_collection, which raises when the
\* collection does not exist and creates nothing.
GetCollection(exists) == [ok |-> exists, exists |-> exists]

\* generar_embedding's request body: {"inputText": texto}
GenerarRequest(texto) == [inputText |-> texto]

\* generar_embedding after the provider call: the validated vector, or an
\* exception.
GenerarEmbeddingResult(outcome) ==
  IF outcome.kind = "transport" THEN Raised("Error al generar embedding con Bedrock")
  ELSE IF outcome.kind = "json" THEN Raised("Error de validacion en respuesta Bedrock")
  ELSE IF ValidarRespuestaBedrock(outcome.body).raised
  THEN Raised("Error de validacion en respuesta Bedrock")
  ELSE ValidarRespuestaBedrock(outcome.body)

\* buscar_codigo without its except clause: the exception reaches the
\* caller.
ErrorPropagated(e) == [error |-> TRUE, e |-> e, raised |-> TRUE]

\* buscar_codigo's return value after an exception.
ErrorAnswer(e) == [error |-> TRUE, e |-> e]

\* The statistics of relevance are computed for every list of results:
\* max() of an empty list raises.
RespuestaSinGuarda(resultados) ==
  IF resultados = <<>> THEN ErrorAnswer("max() arg is an empty sequence")
  ELSE [error |-> FALSE, resultados |-> resultados]

\* buscar_codigo after buscar has returned: the statistics of relevance are
\* logged "if resultados" only, and the text returned is "He encontrado n
\* resultados" followed by the n results.
Respuesta(resultados) == [error |-> FALSE, resultados |-> resultados]

\* No search is in progress.
SearchAtRest == spc \in {"idle", "done"}

SearchInit ==
  /\ p \in {q \in RunParams : q.batch_size = 1}
  /\ content = <<>>
  /\ lines = <<>>
  /\ pos = 0
  /\ st = EmptyChunker
  /\ cpc = "off"
  /\ RunIdle
  /\ coll_exists \in BOOLEAN
  /\ coll_distances \in (IF coll_exists THEN Stores ELSE {<<>>})
  /\ coll_creator = "none"
  /\ vectorizer = "off"
  /\ embedding_call = None
  /\ buscador = None
  /\ spc = "idle"
  /\ calls = 0
  /\ consulta = <<>>
  /\ num_results = 0
  /\ request = None
  /\ response_body = None
  /\ query_embedding = None
  /\ results = <<>>
  /\ respuesta = None
  /\ store_queries = 0

\* RepositoryVectorizer.__init__, _setup_clients: get_collection, and
\* create_collection when that raises.
SetupClients ==
  /\ vectorizer = "off"
  /\ SearchAtRest
  /\ vectorizer' = "ready"
  /\ coll_exists' = TRUE
  /\ coll_creator' = IF coll_exists THEN coll_creator ELSE "pipeline"
  /\ UNCHANGED <<p, chunkVars, runVars, coll_distances, embedding_call,
                 buscador, spc, calls, consulta, num_results, request,
                 response_body, query_embedding, results, respuesta,
                 store_queries>>

\* _get_embedding of the pipeline on a text it does not reject, up to its
\* return.  The provider calls of the pipeline share nothing with the
\* query service: they are taken before the first search.
GetEmbedding ==
  /\ vectorizer = "ready"
  /\ spc = "idle"
  /\ embedding_call = None
  /\ \E text \in Queries, outcome \in SearchOutcomes :
       /\ ~RejectsText(text)
       /\ request' = RequestBody(text)
       /\ embedding_call' =
            [text |-> text,
             body |-> IF outcome.kind = "body" THEN outcome.body ELSE None,
             result |-> GetEmbeddingResult(outcome)]
  /\ UNCHANGED <<p, chunkVars, runVars, coll_exists, coll_creator,
                 coll_distances, vectorizer, buscador, spc, calls, consulta,
                 num_results, response_body, query_embedding, results,
                 respuesta, store_queries>>

\* _get_embedding has returned.
EndEmbedding ==
  /\ embedding_call # None
  /\ embedding_call' = None
  /\ request' = None
  /\ UNCHANGED <<p, chunkVars, runVars, coll_exists, coll_creator,
                 coll_distances, vectorizer, buscador, spc, calls, consulta,
                 num_results, response_body, query_embedding, results,
                 respuesta, store_queries>>

\* A search starts: buscar_codigo(consulta), which calls buscar with
\* MAX_RESULTS, or buscar with a num_results of the caller.
BuscarCodigo ==
  /\ SearchAtRest
  /\ embedding_call = None
  /\ calls < MaxCalls
  /\ calls' = calls + 1
  /\ consulta' \in Queries
  /\ num_results' \in {1, MAX_RESULTS}
  /\ spc' = "obtener"
  /\ request' = None
  /\ response_body' = None
  /\ query_embedding' = None
  /\ results' = <<>>
  /\ respuesta' = None
  /\ UNCHANGED <<p, chunkVars, runVars, coll_exists, coll_creator,
                 coll_distances, vectorizer, embedding_call, buscador,
                 store_queries>>

\* obtener_buscador: the instance there is, or a new BuscadorSemantico; an
\* exception of the constructor ends buscar_codigo with an error text and
\* leaves _buscador as it was.
ObtenerBuscador ==
  /\ spc = "obtener"
  /\ IF buscador # None
     THEN /\ spc' = "buscar"
          /\ UNCHANGED <<buscador, coll_exists, coll_creator, respuesta>>
     ELSE /\ coll_exists' = GetCollection(coll_exists).exists
          /\ coll_creator' = IF GetCollection(coll_exists).exists /\ ~coll_exists
                             THEN "query" ELSE coll_creator
          /\ IF GetCollection(coll_exists).ok
             THEN /\ buscador' = [t |-> "BuscadorSemantico"]
                  /\ spc' = "buscar"
                  /\ UNCHANGED respuesta
             ELSE /\ spc' = "done"
                  /\ respuesta' =
                       ErrorAnswer("No se pudo inicializar el buscador semantico")
                  /\ UNCHANGED buscador
  /\ UNCHANGED <<p, chunkVars, runVars, coll_distances, vectorizer,
                 embedding_call, calls, consulta, num_results, request,
                 response_body, query_embedding, results, store_queries>>

\* buscar: query_embedding = self.generar_embedding(query); every exception
\* of it ends buscar_codigo with an error text.
GenerarEmbedding ==
  /\ spc = "buscar"
  /\ IF RejectsText(consulta)
     THEN /\ spc' = "done"
          /\ respuesta' = ErrorAnswer("Error de validacion en respuesta Bedrock")
          /\ UNCHANGED <<request, response_body, query_embedding>>
     ELSE \E outcome \in SearchOutcomes :
            /\ request' = GenerarRequest(consulta)
            /\ response_body' =
                 IF outcome.kind = "body" THEN outcome.body ELSE None
            /\ IF GenerarEmbeddingResult(outcome).raised
               THEN /\ spc' = "done"
                    /\ respuesta' =
                         ErrorAnswer(GenerarEmbeddingResult(outcome).message)
                    /\ UNCHANGED query_embedding
               ELSE /\ spc' = "query"
                    /\ query_embedding' = GenerarEmbeddingResult(outcome).value
                    /\ UNCHANGED respuesta
  /\ UNCHANGED <<p, chunkVars, runVars, coll_exists, coll_creator,
                 coll_distances, vectorizer, embedding_call, buscador, calls,
                 consulta, num_results, results, store_queries>>

\* buscar: collection.query and the formatting of what it returns; an
\* exception of the store ends buscar_codigo with an error text.
Buscar ==
  /\ spc = "query"
  /\ store_queries' = store_queries + 1
  /\ \/ /\ results' = CollectionQuery(coll_distances, num_results)
        /\ respuesta' =
             Respuesta(FormatResults(CollectionQuery(coll_distances,
                                                     num_results)))
     \/ /\ respuesta' = ErrorAnswer("Error al buscar en ChromaDB")
        /\ UNCHANGED results
  /\ spc' = "done"
  /\ request' = None
  /\ response_body' = None
  /\ query_embedding' = None
  /\ UNCHANGED <<p, chunkVars, runVars, coll_exists, coll_creator,
                 coll_distances, vectorizer, embedding_call, buscador, calls,
                 consulta, num_results>>

SearchNext ==
  \/ SetupClients
  \/ GetEmbedding
  \/ EndEmbedding
  \/ BuscarCodigo
  \/ ObtenerBuscador
  \/ GenerarEmbedding
  \/ Buscar

SpecSearch == SearchInit /\ [][SearchNext]_vars

(***************************************************************************)
(* Claims about the validators, the provider requests and the query        *)
(* service (checked under SpecSearch).                                     *)
(***************************************************************************)
\* A map with a field 'embedding' that is a non-empty list of numbers.
WellFormed(body) ==
  /\ body.t = "dict"
  /\ "embedding" \in DOMAIN body.v
  /\ body.v.embedding.t = "list"
  /\ body.v.embedding.v # <<>>
  /\ \A k \in 1..Len(body.v.embedding.v) : body.v.embedding.v[k].t = "num"

\* The validator's answer to a body is the one the claim describes.
AsClaimed(answer, body) ==
  IF WellFormed(body) THEN answer = Returned(body.v.embedding) ELSE answer.raised

\* C14: the validators of the pipeline and of the query service accept a
\* response body if and only if it is a map whose field 'embedding' is a
\* non-empty list of numbers, and then return that list; every other body
\* is a validation error, and the callers get no vector from it.
C14_ValidatorAcceptsNumbersOnly ==
  /\ embedding_call # None =>
       /\ AsClaimed(ValidarRespuestaEmbedding(embedding_call.body),
                    embedding_call.body)
       /\ embedding_call.result # None => WellFormed(embedding_call.body)
  /\ response_body # None =>
       /\ AsClaimed(ValidarRespuestaBedrock(response_body), response_body)
       /\ query_embedding # None => WellFormed(response_body)

\* The answer of the validators to a body whose elements are ints, floats
\* or booleans is the list, and to any other body an error.
ValidatorsAcceptIntOrFloat ==
  \A body \in ResponseBodies :
    LET inst == /\ body.t = "dict"
                /\ "embedding" \in DOMAIN body.v
                /\ body.v.embedding.t = "list"
                /\ body.v.embedding.v # <<>>
                /\ \A k \in 1..Len(body.v.embedding.v) :
                     IsIntOrFloat(body.v.embedding.v[k])
    IN /\ ValidarRespuestaEmbedding(body) = ValidarRespuestaBedrock(body)
       /\ IF inst THEN ValidarRespuestaBedrock(body) = Returned(body.v.embedding)
          ELSE ValidarRespuestaBedrock(body).raised

\* C17: every request handed to the provider, by the pipeline and by the
\* query service, has an inputText of at most 8192 characters.
C17_InputTextWithinLimit ==
  request # None => Len(request.inputText) <= InputLimit

\* A search has returned results.
Found == spc = "done" /\ respuesta # None /\ ~respuesta.error

Relevancias == [k \in 1..Len(respuesta.resultados) |-> respuesta.resultados[k].relevancia]

\* A sequence of numbers that never goes up / never goes down.
Descending(xs) == \A k \in 1..(Len(xs) - 1) : xs[k] >= xs[k + 1]
Ascending(xs) == \A k \in 1..(Len(xs) - 1) : xs[k] <= xs[k + 1]

\* C18 as stated: buscar returns at most num_results results, ordered by
\* descending relevance, whatever the order in which the store returned its
\* entries.
C18_OrderedByRelevance ==
  Found =>
    /\ Len(respuesta.resultados) <= num_results
    /\ Descending(Relevancias)

\* C18 amended: buscar returns the entries the store returned, one result
\* per entry and in the store's order, at most num_results of them; the
\* list is ordered by descending relevance whenever the store returned its
\* entries by ascending distance.
C18_StoreOrderKept ==
  Found =>
    /\ Len(respuesta.resultados) <= num_results
    /\ Len(respuesta.resultados) = Len(results)
    /\ \A k \in 1..Len(results) :
         /\ respuesta.resultados[k].contenido = results[k].document
         /\ respuesta.resultados[k].metadata = results[k].metadata
    /\ Ascending([k \in 1..Len(results) |-> results[k].distance])
         => Descending(Relevancias)

\* A collection that holds more entries than were asked for.
C18_Truncated ==
  /\ Found
  /\ num_results < Len(coll_distances)
  /\ Len(results) = num_results

\* Two entries returned by ascending distance, with different relevance.
C18_Witness ==
  /\ Found
  /\ Len(results) = 2
  /\ results[1].distance < results[2].distance
  /\ respuesta.resultados[1].relevancia > respuesta.resultados[2].relevancia

\* The floats and their negatives, as far as relevances go.
SignedFloats == Floats \cup {0 - f : f \in Floats}

\* C19 as stated: the relevance of every result is exactly 1 - d, and of
\* two results the one with the larger distance has the smaller relevance.
C19_RelevanceExact ==
  Found =>
    \A k \in 1..Len(results) :
      /\ respuesta.resultados[k].relevancia = One - results[k].distance
      /\ \A m \in 1..Len(results) :
           results[m].distance > results[k].distance =>
             respuesta.resultados[m].relevancia < respuesta.resultados[k].relevancia

\* C19 amended: the relevance of every result is the float nearest to
\* 1 - d, and exactly 1 - d when that is a float; it is negative for d > 1;
\* and of two results the one with the larger distance never has the
\* larger relevance.
C19_RelevanceNearest ==
  Found =>
    \A k \in 1..Len(results) :
      LET d == results[k].distance
          r == respuesta.resultados[k].relevancia
      IN /\ r \in SignedFloats
         /\ \A f \in SignedFloats : Abs(r - (One - d)) <= Abs(f - (One - d))
         /\ IsFloat(Abs(One - d)) => r = One - d
         /\ d > One => r < 0
         /\ \A m \in 1..Len(results) :
              results[m].distance > d => respuesta.resultados[m].relevancia <= r

\* Results for the smallest positive distance, whose relevance is rounded
\* to 1.0, and for a distance above 1.0, whose relevance is negative.
C19_Witness ==
  /\ Found
  /\ Len(results) = 2
  /\ results[1].distance = 1
  /\ respuesta.resultados[1].relevancia = One
  /\ results[2].distance > One
  /\ respuesta.resultados[2].relevancia < 0

\* C20: when the collection does not exist, the construction of
\* BuscadorSemantico fails, buscar_codigo returns an error text, no
\* collection exists afterwards, no instance is kept and no query is sent
\* to the store; a collection comes to exist by the pipeline's client setup
\* only, which leaves an existing collection as it is; the store is queried
\* only for a collection that exists.
C20_QueryNeverCreates ==
  [][/\ (spc = "obtener" /\ buscador = None /\ ~coll_exists /\ spc' # "obtener") =>
          /\ ~coll_exists'
          /\ buscador' = None
          /\ spc' = "done"
          /\ respuesta' =
               ErrorAnswer("No se pudo inicializar el buscador semantico")
          /\ store_queries' = store_queries
     /\ (~coll_exists /\ coll_exists') =>
          /\ vectorizer = "off"
          /\ vectorizer' = "ready"
          /\ coll_creator' = "pipeline"
     /\ (coll_exists /\ vectorizer = "off" /\ vectorizer' = "ready") =>
          /\ coll_exists'
          /\ coll_distances' = coll_distances
          /\ coll_creator' = coll_creator
     /\ store_queries' > store_queries => coll_exists
     /\ coll_creator' # "query"
    ]_vars

\* A search on a store without the collection has ended in an error, with
\* no collection, no instance and no query to the store.
C20_Witness ==
  /\ spc = "done"
  /\ respuesta = ErrorAnswer("No se pudo inicializar el buscador semantico")
  /\ ~coll_exists
  /\ buscador = None
  /\ store_queries = 0
  /\ consulta # <<>>

\* After a failed search the pipeline's setup created the collection and a
\* second search found it.
C20_FoundAfterSetup ==
  /\ spc = "done"
  /\ calls = 2
  /\ coll_creator = "pipeline"
  /\ respuesta = [error |-> FALSE, resultados |-> <<>>]
  /\ store_queries = 1

\* C21: a search on a collection that exists and holds no entry, with the
\* query embedding obtained and the store answering the query, ends with a
\* list of zero results and no error: buscar returns the empty list and
\* buscar_codigo reports 0 results.
C21_EmptyCollectionNoError ==
  [][(/\ spc = "query"
      /\ coll_distances = <<>>
      /\ respuesta' # ErrorAnswer("Error al buscar en ChromaDB")) =>
        /\ coll_exists
        /\ query_embedding # None
        /\ spc' = "done"
        /\ store_queries' = store_queries + 1
        /\ results' = <<>>
        /\ respuesta' = [error |-> FALSE, resultados |-> <<>>]
    ]_vars

\* A search for a text on an empty collection has ended with zero results.
C21_Witness ==
  /\ spc = "done"
  /\ coll_exists
  /\ coll_distances = <<>>
  /\ consulta = <<"a">>
  /\ num_results = MAX_RESULTS
  /\ store_queries = calls
  /\ respuesta # None
  /\ ~respuesta.error
  /\ Len(respuesta.resultados) = 0

\* The messages of the exceptions of a search.
InitError == "No se pudo inicializar el buscador semantico"
EmbeddingErrors == {"Error de validacion en respuesta Bedrock",
                    "Error al generar embedding con Bedrock"}
StoreError == "Error al buscar en ChromaDB"

\* The text "Error al realizar la busqueda: " followed by the message m.
ErrorText(m) == [error |-> TRUE, e |-> m]

\* C30: buscar_codigo never raises: every step that ends a search leaves a
\* return value, which is the error text for the failure of the step (the
\* initialisation, the embedding of the query, the query to the store) or
\* the results of the store; a failed initialisation leaves no instance,
\* every call that finds no instance attempts the initialisation again, and
\* the instance of a successful initialisation is kept.
C30_FailuresReturnedAsText ==
  [][/\ (spc # "done" /\ spc' = "done") =>
          /\ respuesta' # None
          /\ spc = "obtener" =>
               /\ buscador = None
               /\ ~coll_exists
               /\ buscador' = None
               /\ respuesta' = ErrorText(InitError)
          /\ spc = "buscar" =>
               /\ \E m \in EmbeddingErrors : respuesta' = ErrorText(m)
               /\ store_queries' = store_queries
          /\ spc = "query" =>
               \/ respuesta' = ErrorText(StoreError)
               \/ /\ ~respuesta'.error
                  /\ Len(respuesta'.resultados) = Len(results')
          /\ spc \in {"obtener", "buscar", "query"}
     /\ (spc = "obtener" /\ spc' # "obtener" /\ buscador = None) =>
          IF coll_exists
          THEN buscador' # None /\ spc' = "buscar"
          ELSE buscador' = None /\ spc' = "done"
     /\ buscador # None => buscador' = buscador
     /\ spc' \in {"idle", "obtener", "buscar", "query", "done"}
    ]_vars

\* Two searches have failed in the initialisation: the second found no
\* instance and attempted the initialisation again.
C30_Witness ==
  /\ calls = 2
  /\ spc = "done"
  /\ buscador = None
  /\ ~coll_exists
  /\ respuesta = ErrorText(InitError)
  /\ consulta = <<"a">>
  /\ store_queries = 0

\* After a failed initialisation the pipeline's setup created the
\* collection; the second search was initialised and failed in the
\* embedding of its query.
C30_RetryThenEmbeddingFails ==
  /\ calls = 2
  /\ spc = "done"
  /\ buscador # None
  /\ coll_creator = "pipeline"
  /\ store_queries = 0
  /\ respuesta = ErrorText("Error al generar embedding con Bedrock")

\* A search has failed in the query to the store.
C30_StoreFails ==
  /\ spc = "done"
  /\ store_queries = 1
  /\ respuesta = ErrorText(StoreError)

(***************************************************************************)
(* SpecSelect: the file selector (_get_all_files, _should_process_file).   *)
(*                                                                         *)
(* A path is the sequence of its parts (Path.parts), a part is a sequence  *)
(* of dots and of runs of other characters: "a.min.js" is                  *)
(* <<"a", ".", "min", ".", "js">>.                                         *)
(***************************************************************************)
MaxDepth == 1        \* most directories between the root and a file
MaxVisits == 2       \* most paths rglob gives

Dot == "."

\* file_path.suffix: the name from its last dot on, and nothing when the
\* name has no dot or its last dot is its first or its last character.
Suffix(name) ==
  LET dots == {k \in 1..Len(name) : name[k] = Dot}
  IN IF dots = {} THEN <<>>
     ELSE LET k == CHOOSE d \in dots : \A e \in dots : e <= d
          IN IF k > 1 /\ k < Len(name) THEN SubSeq(name, k, Len(name))
             ELSE <<>>

supported_extensions ==
  {<<Dot, x>> : x \in {"ts", "tsx", "js", "jsx", "json", "css", "scss", "sass",
                       "less", "html", "md", "mdx", "yaml", "yml"}}

ignore_dirs ==
  {<<"node_modules">>, <<Dot, "git">>, <<Dot, "next">>, <<"build">>,
   <<"dist">>, <<"coverage">>, <<Dot, "nyc_output">>, <<"tmp">>, <<"temp">>}

ignore_files ==
  {<<Dot, "env">>, <<Dot, "env", Dot, "local">>,
   <<Dot, "env", Dot, "production">>, <<Dot, "env", Dot, "development">>,
   <<"package-lock", Dot, "json">>, <<"yarn", Dot, "lock">>,
   <<Dot, "gitignore">>, <<Dot, "eslintrc">>, <<Dot, "prettierrc">>,
   <<"tsconfig", Dot, "json">>}

\* 1024 * 1024
MaxFileSize == 1048576

\* file_path.name
Name(path) == path[Len(path)]

\* The test of the parts: a part of the whole path, the parts of
\* self.repo_path included, is the name of an ignored directory.
InIgnoredDir(path) == \E k \in 1..Len(path) : path[k] \in ignore_dirs

\* _should_process_file, with the stat of the file: "extension",
\* "directory", "name", "size" or "stat" for the test that rejects the
\* path, "ok" when it returns True.
ShouldProcessFile(path, stat) ==
  IF Suffix(Name(path)) \notin supported_extensions THEN "extension"
  ELSE IF InIgnoredDir(path) THEN "directory"
  ELSE IF Name(path) \in ignore_files THEN "name"
  ELSE IF ~stat.ok THEN "stat"
  ELSE IF stat.st_size > MaxFileSize THEN "size"
  ELSE "ok"

\* The directories a repository may lie in, and its own name.
Above == {<<>>, << <<"home">> >>, << <<"home">>, <<"tmp">> >>}
RootNames == {<<"repo">>, <<"build">>}
Roots == {a \o <<n>> : a \in Above, n \in RootNames}

\* The directories and the files below the root.
DirNames == {<<"src">>, <<"node_modules">>}
FileNames ==
  {<<"a", Dot, "ts">>, <<"a", Dot, "py">>, <<"tsconfig", Dot, "json">>,
   <<Dot, "env">>, <<"a", Dot, "min", Dot, "js">>, <<"dist">>}

RECURSIVE DirsUpTo(_)
DirsUpTo(n) ==
  IF n = 0 THEN {<<>>}
  ELSE LET shorter == DirsUpTo(n - 1)
       IN shorter \cup {Append(d, x) : d \in {e \in shorter : Len(e) = n - 1},
                                         x \in DirNames}

\* What stat gives: a size, or an exception.
Stats ==
  {[ok |-> TRUE, st_size |-> z] : z \in {0, MaxFileSize, MaxFileSize + 1}}
    \cup {[ok |-> FALSE, st_size |-> 0]}

\* What self.repo_path.rglob("*") can give: the root's parts, directories
\* below it and a name; a file or a directory.
Rglobbed(root) ==
  {[parts |-> root \o d \o <<n>>, is_file |-> f, stat |-> z] :
     d \in DirsUpTo(MaxDepth), n \in FileNames, f \in BOOLEAN, z \in Stats}

SelectInit ==
  /\ p \in {q \in RunParams : q.batch_size = 1}
  /\ content = <<>>
  /\ lines = <<>>
  /\ pos = 0
  /\ st = EmptyChunker
  /\ cpc = "off"
  /\ repo = <<>>
  /\ collection = <<>>
  /\ run = 1
  /\ pc = "off"
  /\ files = <<>>
  /\ i = 0
  /\ j = 0
  /\ batch_chunks = <<>>
  /\ status = <<>>
  /\ embeddings = <<>>
  /\ processed_chunks = <<>>
  /\ total_files = 0
  /\ processed_files = 0
  /\ total_chunks = 0
  /\ store_result = "none"
  /\ requests = <<>>
  /\ written = {}
  /\ events = <<>>
  /\ faults = [embedding |-> 0, store |-> 0]
  /\ first_run = [ended |-> FALSE]
  /\ logged = None
  /\ validated = 0
  /\ failed = {}
  /\ repo_exists = TRUE
  /\ exit_status = None
  /\ SearchIdle
  /\ repo_path \in Roots
  /\ file_path = None
  /\ verdict = None
  /\ yielded = <<>>
  /\ visits = 0

selectRest ==
  <<p, chunkVars, searchVars, repo, collection, run, pc, files, i, j,
    batch_chunks, status, embeddings, processed_chunks, total_files,
    processed_files, total_chunks, store_result, requests, written, events,
    faults, first_run, validated, failed, repo_exists, exit_status>>

\* for file_path in self.repo_path.rglob("*"): the next path.
Rglob ==
  /\ file_path = None \/ verdict # None
  /\ visits < MaxVisits
  /\ file_path' \in Rglobbed(repo_path)
  /\ visits' = visits + 1
  /\ verdict' = None
  /\ UNCHANGED <<selectRest, logged, repo_path, yielded>>

\* The path is tested and not yielded.
Rejected(reason) ==
  /\ file_path # None
  /\ verdict = None
  /\ file_path.is_file
  /\ ShouldProcessFile(file_path.parts, file_path.stat) = reason
  /\ verdict' = Bool(FALSE)
  /\ UNCHANGED <<selectRest, repo_path, file_path, yielded, visits>>

\* file_path.is_file() is false.
SkipNotFile ==
  /\ file_path # None
  /\ verdict = None
  /\ ~file_path.is_file
  /\ verdict' = Bool(FALSE)
  /\ UNCHANGED <<selectRest, logged, repo_path, file_path, yielded, visits>>

RejectExtension == Rejected("extension") /\ UNCHANGED logged

RejectIgnoredDir == Rejected("directory") /\ UNCHANGED logged

RejectIgnoredFile == Rejected("name") /\ UNCHANGED logged

RejectStatFails == Rejected("stat") /\ UNCHANGED logged

RejectTooLarge ==
  /\ Rejected("size")
  /\ logged' = LogLine("warning", "Archivo muy grande ignorado")

\* yield file_path
YieldFile ==
  /\ file_path # None
  /\ verdict = None
  /\ file_path.is_file
  /\ ShouldProcessFile(file_path.parts, file_path.stat) = "ok"
  /\ verdict' = Bool(TRUE)
  /\ yielded' = Append(yielded, file_path.parts)
  /\ UNCHANGED <<selectRest, logged, repo_path, file_path, visits>>

SelectNext ==
  \/ Rglob
  \/ SkipNotFile
  \/ RejectExtension
  \/ RejectIgnoredDir
  \/ RejectIgnoredFile
  \/ RejectStatFails
  \/ RejectTooLarge
  \/ YieldFile

SpecSelect == SelectInit /\ [][SelectNext]_vars

(***************************************************************************)
(* Claims about the file selector (checked under SpecSelect).              *)
(***************************************************************************)
\* The parts of the path below the repository root.
Relative(path) == SubSeq(path, Len(repo_path) + 1, Len(path))

\* A file whose stat gave a size has been tested.
FileTested ==
  /\ file_path # None
  /\ verdict # None
  /\ file_path.is_file
  /\ file_path.stat.ok

\* The condition of selection: of the path below the root.
Selectable(rel, st_size) ==
  /\ Suffix(Name(rel)) \in supported_extensions
  /\ \A k \in 1..Len(rel) : rel[k] \notin ignore_dirs
  /\ Name(rel) \notin ignore_files
  /\ st_size <= MaxFileSize

\* C23: a file under the repository root is selected if and only if its
\* extension is in the supported set, no segment of its path below the root
\* is in the directory ignore-list, its name is not in the file ignore-list
\* and its size is at most 1 MiB, whatever the names of the directories
\* above the repository root.
C23_SelectedByRelativePath ==
  FileTested =>
    (verdict.v <=> Selectable(Relative(file_path.parts), file_path.stat.st_size))

\* The selection as it is: the condition is taken of the whole path, the
\* parts of repo_path included.
SelectedByWholePath ==
  FileTested =>
    (verdict.v <=> Selectable(file_path.parts, file_path.stat.st_size))

(***************************************************************************)
(* Claims about main, the file order, the IDs and the collection over the  *)
(* runs (checked under Spec).                                              *)
(***************************************************************************)
\* main has returned because the repository path does not exist.
MissingPathExit == pc = "exited" /\ ~repo_exists

\* C22: when the repository path does not exist, main logs an error,
\* constructs no vectorizer (no client, no collection) and the script exits
\* with a status other than zero.
C22_MissingPathExitsNonZero ==
  MissingPathExit =>
    /\ logged = LogLine("error", "El directorio no existe")
    /\ vectorizer = "off"
    /\ ~coll_exists
    /\ exit_status # None
    /\ exit_status # Num(0)

\* What holds of a missing repository path: the error is logged, nothing
\* is constructed, no file is read, and the script ends with status 0.
MissingPathExitsZero ==
  MissingPathExit =>
    /\ logged = LogLine("error", "El directorio no existe")
    /\ vectorizer = "off"
    /\ ~coll_exists
    /\ events = <<>>
    /\ exit_status = Num(0)

RECURSIVE PassedUpTo(_)
\* The keys of the entries handed to the store by the first n events of the
\* run, in the order in which they were handed over.
PassedUpTo(n) ==
  IF n = 0 THEN <<>>
  ELSE PassedUpTo(n - 1)
       \o (IF events[n].ev = "store" THEN events[n].keys ELSE <<>>)

Passed == PassedUpTo(Len(events))

\* The place of a file in the discovery order.
Discovered(path) == CHOOSE k \in 1..Len(files) : files[k] = path

\* C25: in the sequence of entries a run hands to the store, within batches
\* and across them, the entries of a file discovered earlier all come
\* before the entries of a file discovered later, and the entries of one
\* file come in increasing chunk_index order.
C25_WrittenInDiscoveryOrder ==
  LET passed == Passed
  IN \A a, b \in 1..Len(passed) :
       a < b =>
         \/ Discovered(passed[a].file_path) < Discovered(passed[b].file_path)
         \/ /\ passed[a].file_path = passed[b].file_path
            /\ passed[a].chunk_index < passed[b].chunk_index

\* Two files of two chunks each have been handed to the store in one
\* batch.
C25_Witness ==
  /\ Len(Passed) = 4
  /\ p.batch_size = 2
  /\ Passed[1].file_path = Passed[2].file_path
  /\ Passed[3].file_path = Passed[4].file_path
  /\ Passed[2].file_path # Passed[3].file_path

\* Entries of two batches and of two files have been handed to the store.
C25_AcrossBatches ==
  /\ Len(Passed) >= 2
  /\ Cardinality(StoresOf(events, 0)) = 1
  /\ Cardinality(StoresOf(events, 1)) = 1
  /\ Passed[1].file_path # Passed[Len(Passed)].file_path

\* The provider calls and the failed provider calls in the history of the
\* run.
Calls == {x \in 1..Len(events) : events[x].ev = "call"}
FailedReturns == {x \in 1..Len(events) : events[x].ev = "return" /\ ~events[x].ok}

\* C26: in a run at most one provider call is made for each chunk; a chunk
\* whose call failed is not called for again, is not among the chunks
\* handed to the store, and the batch goes on with its other chunks and
\* to its store write.
C26_NoRetry ==
  /\ \A x, y \in Calls : events[x].key = events[y].key => x = y
  /\ LET passed == Passed
     IN \A x \in FailedReturns :
          /\ \E y \in Calls : y < x /\ events[y].key = events[x].key
          /\ \A y \in Calls : y > x => events[y].key # events[x].key
          /\ \A b \in 1..Len(passed) : passed[b] # events[x].key
  /\ (pc = "gather" /\ \E x \in FailedReturns : events[x].batch = Batch) =>
       ENABLED (RejectText \/ IssueCall \/ ReturnCall \/ Collect)
  /\ (pc = "aborted" /\ FailedReturns # {}) => events[Len(events)].ev = "read"

\* The first call of a batch failed, the call of a later chunk of the batch
\* was made and its chunk handed to the store, and the run has ended with
\* its summary.
C26_Witness ==
  /\ pc = "done"
  /\ exit_status = Num(0)
  /\ \E x \in FailedReturns, y \in Calls :
       /\ x < y
       /\ events[x].batch = events[y].batch
       /\ \E b \in 1..Len(Passed) : Passed[b] = events[y].key

\* The chunks of the batch whose text is the empty string.
EmptyChunks == {k \in 1..Len(batch_chunks) : batch_chunks[k].text = <<>>}

\* C27: a chunk whose text is the empty string, which the chunker can
\* emit, is never sent to the provider and never written to the store:
\* _get_embedding returns None for it without a call, and the chunk is not
\* among the chunks handed to the writer.
C27_EmptyChunkNeverSent ==
  /\ pc \in {"gather", "store", "release"} =>
       \A k \in EmptyChunks :
         /\ requests[k] = None
         /\ status[k] # "called"
         /\ status[k] = "done" => embeddings[k] = None
         /\ \A x \in Calls : events[x].key.file_path = batch_chunks[k].metadata.file_path
              => events[x].key.chunk_index # batch_chunks[k].metadata.chunk_index
         /\ BatchProcessed => ~Kept(k)
  /\ \A k \in DOMAIN requests :
       requests[k] # None => requests[k].inputText # <<>>
  /\ \A e \in written : e.document # <<>>
  /\ \A id \in DOMAIN collection : collection[id].document # <<>>

\* The chunker gave a file two slices and a chunk with the empty text; the
\* slices were embedded and stored, the empty chunk was rejected without a
\* call.
C27_Witness ==
  /\ pc = "release"
  /\ store_result = "ok"
  /\ Len(processed_chunks) >= 2
  /\ logged.msg = "Almacenados"
  /\ \E k \in EmptyChunks :
       /\ k > 2
       /\ batch_chunks[k].metadata.chunk_index = 2
       /\ status[k] = "done"
       /\ embeddings[k] = None
       /\ requests[k] = None

MaxPathLen == 3      \* longest file path of the exhaustive path set
MaxIndex == 11       \* largest chunk index of the exhaustive index set

RECURSIVE PathsUpTo(_)
\* The file paths made of a letter, the underscore and a digit.
PathsUpTo(n) ==
  IF n = 0 THEN {<<>>}
  ELSE LET shorter == PathsUpTo(n - 1)
       IN shorter \cup {Append(t, c) : t \in {u \in shorter : Len(u) = n - 1},
                                         c \in {"a", "_", "1"}}

KeyInputs ==
  [file_path : PathsUpTo(MaxPathLen) \ {<<>>}, chunk_index : 0..MaxIndex]

\* The pre-hash key tells any two of these pairs apart: there are as many
\* keys as pairs.
KeyInjective ==
  Cardinality({ChunkKey(m) : m \in KeyInputs}) = Cardinality(KeyInputs)

\* The file_path and chunk_index of the chunks of the batch and of every
\* entry handed to the store.
ChunkPlaces ==
  {KeysOf(batch_chunks)[k] : k \in 1..Len(batch_chunks)}
    \cup {[file_path |-> e.metadata.file_path,
           chunk_index |-> e.metadata.chunk_index] : e \in written}

\* C28: the string hashed into a chunk ID, file_path + "_" + chunk_index,
\* is injective in the pair (file_path, chunk_index), also for file paths
\* that contain underscores and digits: chunks with different paths or
\* different indices never have the same pre-hash key (there are as many
\* keys as pairs among the chunks of every batch and the entries handed to
\* the store so far), and entries handed to the store with the same ID are
\* chunks of the same path and index.
C28_KeyInjective ==
  /\ KeyInjective
  /\ BatchProcessed =>
       /\ Cardinality({ChunkKey(m) : m \in ChunkPlaces}) = Cardinality(ChunkPlaces)
       /\ \A e1, e2 \in written :
            e1.id = e2.id =>
              /\ e1.metadata.file_path = e2.metadata.file_path
              /\ e1.metadata.chunk_index = e2.metadata.chunk_index

\* One batch holds chunk 1 of the file a and chunk 0 of the file a_1,
\* both handed to the store under different IDs.
C28_Witness ==
  /\ pc = "release"
  /\ \E k, m \in 1..Len(processed_chunks) :
       /\ processed_chunks[k].metadata.file_path = <<"a">>
       /\ processed_chunks[k].metadata.chunk_index = 1
       /\ processed_chunks[m].metadata.file_path = <<"a", "_", "1">>
       /\ processed_chunks[m].metadata.chunk_index = 0
       /\ ChunkId(processed_chunks[k]) # ChunkId(processed_chunks[m])
       /\ Entry(processed_chunks[k]) \in written
       /\ Entry(processed_chunks[m]) \in written

\* C29: the pipeline never deletes an entry of the collection: in every
\* step of a run, of the start of the next run and of the client setup,
\* every ID of the collection stays in it with the entry it had, so the
\* set of IDs only grows and the entries an earlier run wrote for chunk
\* indices that a file no longer has stay in the collection.
C29_NeverDeletes ==
  [][\A id \in DOMAIN collection :
       /\ id \in DOMAIN collection'
       /\ collection'[id] = collection[id]
    ]_vars

\* The ID of chunk n of the k-th file.
IdOf(k, n) == Sha256(ChunkKey([file_path |-> Path(k), chunk_index |-> n]))

\* A file gave three chunks in the first run, of which two were stored, and
\* one chunk in the second run, which has ended: the collection still
\* holds the first run's entry of chunk 1, which no chunk of the second run
\* has.
C29_Witness ==
  /\ run = 2
  /\ pc = "done"
  /\ faults.embedding = 0
  /\ \E k \in DOMAIN repo :
       /\ first_run.repo[k] = [readable |-> TRUE, content |-> <<"W", "a", NL>>]
       /\ repo[k] = [readable |-> TRUE, content |-> <<"a">>]
       /\ IdOf(k, 1) \in first_run.ids
       /\ IdOf(k, 1) \in DOMAIN collection
       /\ collection[IdOf(k, 1)].document = <<"a">>
       /\ \A x \in Calls : events[x].key # [file_path |-> Path(k), chunk_index |-> 1]

====
